---- MODULE Spec2Model ----
(***************************************************************************)
(* Planetary feature search backend: the result cache and the keyword      *)
(* search endpoint (backend/search_deepseek.py), the remote-assisted query *)
(* parser (backend/deepseek_service.py), the unified feature and event     *)
(* search endpoint (backend/search.py) and the embedding provider          *)
(* (backend/ai_service.py).                                                *)
(*                                                                         *)
(* Conventions.  A Python str is a TLA+ string; its i-th character is      *)
(* SubSeq(s, i, i).  An Optional value is a sequence of length at most     *)
(* one: None is << >> and the value v is << v >>.  Scores are integers in  *)
(* units of 10^-5, so 1.0 is 100000 and 0.95 is 95000.  The clock is in    *)
(* whole seconds.                                                          *)
(***************************************************************************)
EXTENDS Integers, Sequences, FiniteSets, TLC

VARIABLES
    clients,            \* the requests the clients send in this run
    now,                \* time.time(), in seconds
    ticks,              \* number of clock advances so far (bounded)
    DEEPSEEK_API_KEY,   \* whether the process has an API key configured
    _search_cache,      \* the dict, as the sequence of its items in dict order
    pc,                 \* keyword search: where each request is
    req,                \* keyword search: each request's locals and outcome
    issued,             \* keyword search: number of requests started (bounded)
    lastStore,          \* history: per cache key, the latest _cache_result
    lastPut,            \* history: what the latest _cache_result call met and did
    spc,                \* unified search: where the request is
    sreq,               \* unified search: the request's locals and outcome
    served,             \* unified search: number of requests started (bounded)
    _model,             \* ai_service: whether the global model is loaded
    ppc,                \* parser: whether a call has returned
    pcall,              \* parser: the call's arguments, remote outcome, result
    tpc,                \* text functions: whether the call has been made
    tcall,              \* text functions: the call's argument and results
    gpc,                \* get_model: where each concurrent caller is
    loads,              \* get_model: number of models constructed so far
    handle,             \* get_model: which construction the global holds (0: none)
    lpc,                \* lookup endpoints: where the request is
    lcall               \* lookup endpoints: the request's arguments and outcome

vars == << clients, now, ticks, DEEPSEEK_API_KEY, _search_cache, pc, req, issued,
           lastStore, lastPut, spc, sreq, served, _model, ppc, pcall,
           tpc, tcall, gpc, loads, handle, lpc, lcall >>

cacheVars == << clients, now, ticks, DEEPSEEK_API_KEY, _search_cache, pc, req, issued,
                lastStore, lastPut >>
searchVars == << spc, sreq, served, _model >>
parserVars == << ppc, pcall >>
textVars == << tpc, tcall >>
modelVars == << gpc, loads, handle >>
lookupVars == << lpc, lcall >>

-----------------------------------------------------------------------------
(* Python values *)

None == << >>
Some(v) == << v >>

\* bool(x) for an Optional[str]: None and "" are falsy
Truthy(o) == o # None /\ o[1] # ""

\* a or b, for Optional[str] operands
Or(a, b) == IF Truthy(a) THEN a ELSE b

Min(a, b) == IF a < b THEN a ELSE b
Max(a, b) == IF a > b THEN a ELSE b

\* xs[:n], with Python's meaning of a negative n
SlicePrefix(xs, n) ==
    IF n >= 0 THEN SubSeq(xs, 1, Min(n, Len(xs)))
    ELSE SubSeq(xs, 1, Max(0, Len(xs) + n))

-----------------------------------------------------------------------------
(* Strings *)

UpperLetters == "ABCDEFGHIJKLMNOPQRSTUVWXYZ"
LowerLetters == "abcdefghijklmnopqrstuvwxyz"
Digits       == "0123456789"

Char(s, i) == SubSeq(s, i, i)

InStr(c, s) == \E i \in 1..Len(s) : Char(s, i) = c

UpperSet == { Char(UpperLetters, i) : i \in 1..Len(UpperLetters) }

LowerOf == [c \in UpperSet |->
               Char(LowerLetters, CHOOSE i \in 1..26 : Char(UpperLetters, i) = c)]

\* str.lower() of one character
LowerChar(c) == IF c \in UpperSet THEN LowerOf[c] ELSE c

\* str.lower(), computed by halves so that a long text nests shallowly
RECURSIVE Lower(_)
Lower(s) ==
    IF s = "" THEN ""
    ELSE IF Len(s) = 1 THEN LowerChar(s)
    ELSE LET mid == Len(s) \div 2
         IN  Lower(SubSeq(s, 1, mid)) \o Lower(SubSeq(s, mid + 1, Len(s)))

\* sub in s
Contains(s, sub) ==
    \E i \in 1..(Len(s) - Len(sub) + 1) : SubSeq(s, i, i + Len(sub) - 1) = sub

\* any(w in s for w in ws)
ContainsAny(s, ws) == \E i \in 1..Len(ws) : Contains(s, ws[i])

\* the whitespace characters the model's alphabet has
IsSpace(c) == c \in {" ", "\t", "\n", "\r", "\f"}

\* str.split(): the maximal runs of non-whitespace characters, in order.
\* SplitFrom gives the words that start at position i or later.
RECURSIVE SplitFrom(_, _)
SplitFrom(s, i) ==
    LET starts == { k \in i..Len(s) :
                      ~IsSpace(Char(s, k)) /\ (k = 1 \/ IsSpace(Char(s, k - 1))) }
    IN  IF starts = {} THEN << >>
        ELSE LET first == CHOOSE k \in starts : \A m \in starts : k <= m
                 ends  == { k \in first..Len(s) :
                              k = Len(s) \/ IsSpace(Char(s, k + 1)) }
                 last  == CHOOSE k \in ends : \A m \in ends : k <= m
             IN  << SubSeq(s, first, last) >> \o SplitFrom(s, last + 1)

Split(s) == SplitFrom(s, 1)

\* the value of the last key of an ordered table contained in s, or None
LastMatch(table, s) ==
    IF \E i \in 1..Len(table) : Contains(s, table[i][1])
    THEN Some(table[CHOOSE i \in 1..Len(table) :
                       /\ Contains(s, table[i][1])
                       /\ \A j \in (i + 1)..Len(table) : ~Contains(s, table[j][1])][2])
    ELSE None

\* the value of the first key of an ordered table contained in s, or None
FirstMatch(table, s) ==
    IF \E i \in 1..Len(table) : Contains(s, table[i][1])
    THEN Some(table[CHOOSE i \in 1..Len(table) :
                       /\ Contains(s, table[i][1])
                       /\ \A j \in 1..(i - 1) : ~Contains(s, table[j][1])][2])
    ELSE None

-----------------------------------------------------------------------------
(* backend/deepseek_service.py: the remote-assisted parser *)

\* A parsed query is a JSON value.  An object is given by the keys the code
\* reads (an absent key and a null one read the same through dict.get);
\* "array" stands for every JSON value that is not an object.
ParsedObject(body, category, size, keywords, confidence) ==
    [ kind            |-> "object",
      target_body     |-> body,
      category        |-> category,
      size_filter     |-> size,
      search_keywords |-> keywords,
      confidence      |-> confidence ]

ParsedArray == [ParsedObject(None, None, None, << >>, 0) EXCEPT !.kind = "array"]

\* _fallback_parser: body_keywords, in dict order
body_keywords ==
    << << "moon", "Moon" >>, << "lunar", "Moon" >>, << "mars", "Mars" >>,
       << "martian", "Mars" >>, << "mercury", "Mercury" >>,
       << "venus", "Venus" >>, << "earth", "Earth" >> >>

\* _fallback_parser: the if/elif chain that sets "category"
FallbackCategory(query_lower) ==
    IF ContainsAny(query_lower, << "crater", "impact", "basin" >>) THEN Some("crater")
    ELSE IF ContainsAny(query_lower, << "mountain", "peak", "mons" >>) THEN Some("mons")
    ELSE IF ContainsAny(query_lower, << "mountains", "range", "montes" >>) THEN Some("montes")
    ELSE IF ContainsAny(query_lower, << "valley", "vallis" >>) THEN Some("vallis")
    ELSE IF ContainsAny(query_lower, << "sea", "mare", "plain" >>) THEN Some("mare")
    ELSE None

\* _fallback_parser: the if/elif chain that sets "size_filter"
FallbackSize(query_lower) ==
    IF ContainsAny(query_lower, << "large", "big", "huge", "biggest", "largest", "massive" >>)
    THEN Some("large")
    ELSE IF ContainsAny(query_lower, << "small", "tiny", "smallest" >>)
    THEN Some("small")
    ELSE None

stop_words == {"show", "me", "find", "the", "on", "in", "at", "where", "are", "a", "an", "is"}

\* [w for w in words if w not in stop_words and len(w) > 2]
RECURSIVE KeepKeywords(_)
KeepKeywords(words) ==
    IF words = << >> THEN << >>
    ELSE (IF Head(words) \notin stop_words /\ Len(Head(words)) > 2
          THEN << Head(words) >> ELSE << >>) \o KeepKeywords(Tail(words))

\* the fallback's fixed confidence 0.6, in hundredths
FallbackConfidence == 60

\* _fallback_parser with the body override taking precedence over the body
\* named in the query
FallbackParserOverrideFirst(query, target_body) ==
    LET query_lower == Lower(query)
        detected    == FirstMatch(body_keywords, query_lower)
        body        == IF Truthy(target_body) THEN target_body
                       ELSE IF detected # None THEN detected
                       ELSE None
    IN  ParsedObject(body,
                     FallbackCategory(query_lower),
                     FallbackSize(query_lower),
                     SlicePrefix(KeepKeywords(Split(query_lower)), 5),
                     FallbackConfidence)

_fallback_parser(query, target_body) ==
    LET query_lower == Lower(query)
        detected    == FirstMatch(body_keywords, query_lower)
        body        == IF detected # None THEN detected
                       ELSE IF Truthy(target_body) THEN target_body
                       ELSE None
    IN  ParsedObject(body,
                     FallbackCategory(query_lower),
                     FallbackSize(query_lower),
                     SlicePrefix(KeepKeywords(Split(query_lower)), 5),
                     FallbackConfidence)

\* What the remote call can do.  "content" is a 200 response whose message
\* content is the JSON text of `value`.
RemoteKinds ==
    { "timeout",          \* httpx.TimeoutException
      "error",            \* any other exception of the request
      "status",           \* a response whose status is not 200
      "body_not_json",    \* response.json() raises
      "envelope_shape",   \* result["choices"][0]["message"]["content"] raises
      "content_not_json", \* json.loads(content) raises
      "content" }

Remote(kind, value) == [kind |-> kind, value |-> value]

\* parse_query_with_deepseek, with the API key setting and the remote
\* outcome as arguments
parse_query_with_deepseek(query, target_body, api_key, remote) ==
    IF ~api_key THEN _fallback_parser(query, target_body)
    ELSE IF remote.kind # "content" THEN _fallback_parser(query, target_body)
    ELSE LET parsed == remote.value IN
         IF ~Truthy(target_body) THEN parsed
         \* parsed.get on a value that is no dict raises AttributeError,
         \* which the handler of line 107 turns into the fallback
         ELSE IF parsed.kind # "object" THEN _fallback_parser(query, target_body)
         ELSE IF ~Truthy(parsed.target_body)
              THEN [parsed EXCEPT !.target_body = target_body]
              ELSE parsed

-----------------------------------------------------------------------------
(* backend/database.py: the catalog rows the searches run over *)

Feature(id, name, body, category, diameter, origin, description, embedded) ==
    [ id |-> id, feature_name |-> name, target_body |-> body,
      category |-> category, diameter |-> diameter, origin |-> origin,
      description |-> description, embedding_data |-> embedded ]

\* The planetary_features table, in the order the database returns rows.
\* diameter, origin and description are nullable; embedding_data is TRUE
\* for a row that has a stored embedding.
Catalog ==
    << Feature(1, "Tycho", "Moon", "Crater", Some(85), Some("Tycho Brahe"),
               Some("large impact crater"), TRUE),
       Feature(2, "Olympus Mons", "Mars", "Mons", Some(600), None,
               Some("shield volcano"), TRUE),
       Feature(3, "Gale", "Mars", "Crater", None, Some("Walter Gale"), None, TRUE),
       Feature(4, "Linne", "Moon", "Crater", Some(2), None, None, FALSE) >>

FeatureIds == { Catalog[i].id : i \in 1..Len(Catalog) }

RowOf(id) == Catalog[CHOOSE i \in 1..Len(Catalog) : Catalog[i].id = id]


\* the lower-cased columns of each row, per row id
LowerName     == [id \in FeatureIds |-> Lower(RowOf(id).feature_name)]
LowerCategory == [id \in FeatureIds |-> Lower(RowOf(id).category)]
LowerBody     == [id \in FeatureIds |-> Lower(RowOf(id).target_body)]

\* the WHERE clause the endpoints build: each filter applies only when set
RowMatches(row, target, category, size_filter, origin_filter) ==
    /\ Truthy(target) => LowerBody[row.id] = Lower(target[1])
    /\ Truthy(category) => Contains(LowerCategory[row.id], Lower(category[1]))
    /\ (Truthy(size_filter) /\ Lower(size_filter[1]) = "large") =>
           (row.diameter # None /\ row.diameter[1] > 50)
    /\ (Truthy(size_filter) /\ Lower(size_filter[1]) = "small") =>
           (row.diameter # None /\ row.diameter[1] < 10)
    /\ origin_filter => row.origin # None

\* the rows the query returns, in table order
RECURSIVE SelectRows(_, _, _, _, _, _)
SelectRows(rows, target, category, size_filter, origin_filter, i) ==
    IF i > Len(rows) THEN << >>
    ELSE (IF RowMatches(rows[i], target, category, size_filter, origin_filter)
          THEN << rows[i] >> ELSE << >>)
         \o SelectRows(rows, target, category, size_filter, origin_filter, i + 1)

-----------------------------------------------------------------------------
(* backend/search_deepseek.py: keyword scoring *)

\* feature_text of _calculate_keyword_score, per row id
FeatureText ==
    [id \in FeatureIds |->
        Lower(RowOf(id).feature_name \o " " \o RowOf(id).category \o " "
              \o (IF RowOf(id).description = None THEN ""
                  ELSE RowOf(id).description[1]))]

\* one keyword's contribution to the score
KeywordPoints(feature, keyword) ==
    LET kw == Lower(keyword)
    IN  IF ~Contains(FeatureText[feature.id], kw) THEN 0
        ELSE IF Contains(LowerName[feature.id], kw) THEN 100000
        ELSE IF Contains(LowerCategory[feature.id], kw) THEN 50000
        ELSE 30000

RECURSIVE SumKeywordPoints(_, _)
SumKeywordPoints(feature, keywords) ==
    IF keywords = << >> THEN 0
    ELSE KeywordPoints(feature, Head(keywords))
         + SumKeywordPoints(feature, Tail(keywords))

\* the bonus for a size match
SizePoints(feature, size_filter) ==
    IF ~Truthy(size_filter) THEN 0
    ELSE IF feature.diameter # None /\ feature.diameter[1] # 0
         THEN IF size_filter[1] = "large" /\ feature.diameter[1] > 100 THEN 100000
              ELSE IF size_filter[1] = "small" /\ feature.diameter[1] < 10 THEN 100000
              ELSE 0
         ELSE 20000

_calculate_keyword_score(feature, keywords, parsed_query) ==
    100000
    + SumKeywordPoints(feature, keywords)
    + (IF /\ Truthy(parsed_query.category)
          /\ Contains(LowerCategory[feature.id], Lower(parsed_query.category[1]))
       THEN 200000 ELSE 0)
    + (IF /\ Truthy(parsed_query.target_body)
          /\ Lower(parsed_query.target_body[1]) = LowerBody[feature.id]
       THEN 100000 ELSE 0)
    + SizePoints(feature, parsed_query.size_filter)

\* round(score, 4): to the nearest multiple of 10^-4, ties to the even one
Round4(score) ==
    LET q == score \div 10
        r == score % 10
    IN  10 * (IF r > 5 \/ (r = 5 /\ q % 2 = 1) THEN q + 1 ELSE q)

\* list.sort(key=score, reverse=True): stable, descending.  Insert x after
\* every element whose score is at least x's.
\* a variant that is not stable: x goes before the elements of equal score
RECURSIVE InsertBeforeEqual(_, _)
InsertBeforeEqual(sorted, x) ==
    IF sorted = << >> THEN << x >>
    ELSE IF Head(sorted).score > x.score
         THEN << Head(sorted) >> \o InsertBeforeEqual(Tail(sorted), x)
         ELSE << x >> \o sorted

RECURSIVE InsertDesc(_, _)
InsertDesc(sorted, x) ==
    IF sorted = << >> THEN << x >>
    ELSE IF Head(sorted).score >= x.score
         THEN << Head(sorted) >> \o InsertDesc(Tail(sorted), x)
         ELSE << x >> \o sorted

RECURSIVE SortDesc(_)
SortDesc(xs) ==
    IF xs = << >> THEN << >>
    ELSE InsertDesc(SortDesc(SubSeq(xs, 1, Len(xs) - 1)), xs[Len(xs)])

-----------------------------------------------------------------------------
(* backend/search_deepseek.py: the result cache *)

_cache_max_size == 100

\* the 300 of _get_cached_result: seconds an entry stays visible
CacheTTL == 300

_get_cache_key(query, target_body) ==
    Lower(query) \o ":" \o (IF Truthy(target_body) THEN target_body[1] ELSE "all")

\* the position of cache_key in the dict, 0 when it is not a key
CacheIndex(cache, cache_key) ==
    IF \E i \in 1..Len(cache) : cache[i].key = cache_key
    THEN CHOOSE i \in 1..Len(cache) : cache[i].key = cache_key
    ELSE 0

\* del d[key] of the i-th item
DeleteAt(cache, i) == SubSeq(cache, 1, i - 1) \o SubSeq(cache, i + 1, Len(cache))

\* a variant that still serves an entry aged exactly CacheTTL
GetCachedResultInclusive(cache, cache_key, t) ==
    LET i == CacheIndex(cache, cache_key) IN
    IF i = 0 THEN [result |-> None, cache |-> cache]
    ELSE IF t - cache[i].timestamp <= CacheTTL
         THEN [result |-> Some(cache[i].result), cache |-> cache]
         ELSE [result |-> None, cache |-> DeleteAt(cache, i)]

\* a variant that reports an expired entry as a miss but leaves it in the dict
GetCachedResultKeeping(cache, cache_key, t) ==
    LET i == CacheIndex(cache, cache_key) IN
    IF i = 0 THEN [result |-> None, cache |-> cache]
    ELSE IF t - cache[i].timestamp < CacheTTL
         THEN [result |-> Some(cache[i].result), cache |-> cache]
         ELSE [result |-> None, cache |-> cache]

\* _get_cached_result at time t: the value returned and the dict afterwards
_get_cached_result(cache, cache_key, t) ==
    LET i == CacheIndex(cache, cache_key) IN
    IF i = 0 THEN [result |-> None, cache |-> cache]
    ELSE IF t - cache[i].timestamp < CacheTTL
         THEN [result |-> Some(cache[i].result), cache |-> cache]
         ELSE [result |-> None, cache |-> DeleteAt(cache, i)]

\* a variant that picks the item stored last (greatest timestamp)
NewestIndex(cache) ==
    CHOOSE i \in 1..Len(cache) :
        /\ \A j \in 1..Len(cache) : cache[i].timestamp >= cache[j].timestamp
        /\ \A j \in 1..(i - 1) : cache[j].timestamp < cache[i].timestamp

\* min(d.keys(), key=timestamp): the first item, in dict order, among those
\* of least timestamp
OldestIndex(cache) ==
    CHOOSE i \in 1..Len(cache) :
        /\ \A j \in 1..Len(cache) : cache[i].timestamp <= cache[j].timestamp
        /\ \A j \in 1..(i - 1) : cache[j].timestamp > cache[i].timestamp

\* a variant that evicts only once the dict is over capacity
EvictIfOverfull(cache) ==
    IF Len(cache) > _cache_max_size THEN DeleteAt(cache, OldestIndex(cache))
    ELSE cache

\* the eviction step of _cache_result
EvictIfFull(cache) ==
    IF Len(cache) >= _cache_max_size THEN DeleteAt(cache, OldestIndex(cache))
    ELSE cache

\* a variant that adds the item at the end whether or not its key is present
SetItemAppending(cache, item) == Append(cache, item)

\* d[key] = value: a key already present keeps its place in the dict
SetItem(cache, item) ==
    LET i == CacheIndex(cache, item.key) IN
    IF i = 0 THEN Append(cache, item) ELSE [cache EXCEPT ![i] = item]

\* _cache_result at time t: the dict afterwards
_cache_result(cache, cache_key, result, t) ==
    SetItem(EvictIfFull(cache),
            [key |-> cache_key, result |-> result, timestamp |-> t])

-----------------------------------------------------------------------------
(* backend/search_deepseek.py: POST /search/query, the keyword search *)

\* FeatureResult of the keyword search: the row's id and the rounded score.
\* Its other fields are copies of the row's columns, which RowOf gives.
KeywordFeatureResult(feature, score) ==
    [ id |-> feature.id, match_score |-> Round4(score) ]


\* the (feature, score) pairs of the rows whose score is positive, in row order
RECURSIVE ScoreRows(_, _)
ScoreRows(features, parsed_query) ==
    IF features = << >> THEN << >>
    ELSE LET f     == Head(features)
             score == _calculate_keyword_score(f, parsed_query.search_keywords,
                                               parsed_query)
         IN  (IF score > 0 THEN << [feature |-> f, score |-> score] >> ELSE << >>)
             \o ScoreRows(Tail(features), parsed_query)

\* the safety cap of the catalog query
QueryCap == 1000

\* steps 2 and 3: the filtered rows, scored and sorted
KeywordScored(parsed_query, target_body) ==
    LET target   == Or(parsed_query.target_body, target_body)
        features == SlicePrefix(
                        SelectRows(Catalog, target, parsed_query.category,
                                   None, FALSE, 1),
                        QueryCap)
    IN  SortDesc(ScoreRows(features, parsed_query))

\* step 4: the first `limit` pairs as results
KeywordResults(scored, limit) ==
    LET top == SlicePrefix(scored, limit)
    IN  [i \in 1..Len(top) |-> KeywordFeatureResult(top[i].feature, top[i].score)]

FoundText(results) == "Found " \o ToString(Len(results)) \o " results"

\* generate_search_summary: `remote` is "ok" for a 200 response with a
\* message, anything else for a failure of the call
RemoteSummaryText == "remote summary"

generate_search_summary(results, api_key, remote) ==
    IF ~api_key \/ results = << >> THEN FoundText(results)
    ELSE IF remote = "ok" THEN RemoteSummaryText
    ELSE FoundText(results)

SearchResponse(query, parsed_query, results, total_results, summary) ==
    [ query |-> query, parsed_query |-> parsed_query, results |-> results,
      total_results |-> total_results, summary |-> summary ]

\* A request's locals.  calls is the set of stages the request has invoked.
\* Of its cache lookup it keeps: prior, the history's record of its key;
\* found, the dict's item of its key before the call; deleted, whether the
\* key was absent from the dict after the call.
BlankReq ==
    [ query |-> "", target_body |-> None, limit |-> 0, cache_key |-> "",
      hit |-> FALSE, looked_at |-> 0, prior |-> None, found |-> None,
      deleted |-> FALSE, calls |-> {},
      pending |-> None, status |-> 0, response |-> None, stored |-> FALSE ]

\* lines 92-97: the cache lookup of a request made at time t
Lookup(query, target_body, limit, cache, history, t) ==
    LET cache_key == _get_cache_key(query, target_body)
        got       == _get_cached_result(cache, cache_key, t)
        \* `if cached_result:` a stored response dict has keys, so is truthy
        hit       == got.result # None
    IN  [ rec   |-> [BlankReq EXCEPT
                        !.query = query, !.target_body = target_body,
                        !.limit = limit, !.cache_key = cache_key,
                        !.hit = hit, !.looked_at = t,
                        !.prior = IF \E h \in history : h.key = cache_key
                                  THEN Some(CHOOSE h \in history : h.key = cache_key)
                                  ELSE None,
                        !.found = IF CacheIndex(cache, cache_key) = 0 THEN None
                                  ELSE Some(cache[CacheIndex(cache, cache_key)]),
                        !.deleted = CacheIndex(got.cache, cache_key) = 0,
                        !.status = IF hit THEN 200 ELSE 0,
                        !.response = got.result],
          cache |-> got.cache ]

\* lines 103-165: from the parser's answer to the formatted results; a parsed
\* value that is no dict makes parsed_query.get raise, which ends as a 500
AfterParse(rec, parsed_query) ==
    IF parsed_query.kind # "object"
    THEN [rec EXCEPT !.calls = @ \cup {"parser"}, !.status = 500]
    ELSE LET scored  == KeywordScored(parsed_query, rec.target_body)
             results == KeywordResults(scored, rec.limit)
         IN  [rec EXCEPT
                 !.calls = @ \cup {"parser", "catalog"},
                 !.pending = Some(SearchResponse(rec.query, parsed_query, results,
                                                 Len(scored), None))]

\* lines 169-177: whether the summary is asked for
WantsSummary(rec) == rec.pending # None /\ rec.pending[1].results # << >>

\* lines 179-190: the response, as returned and as stored
Finish(rec, summary) ==
    [rec EXCEPT !.status = 200, !.stored = TRUE,
                !.calls = IF summary = None THEN @ ELSE @ \cup {"summary"},
                !.response = Some([rec.pending[1] EXCEPT !.summary = summary])]

\* the history after _cache_result(cache_key, result) at time t on `cache`
HistoryAfterStore(history, cache, cache_key, result, t) ==
    LET evicted == IF Len(cache) >= _cache_max_size
                   THEN {cache[OldestIndex(cache)].key} ELSE {}
        marked  == { IF h.key \in evicted THEN [h EXCEPT !.evicted = TRUE] ELSE h :
                     h \in { g \in history : g.key # cache_key } }
    IN  marked \cup {[key |-> cache_key, result |-> result, time |-> t,
                      evicted |-> FALSE]}

\* what a _cache_result call met and did: the size of the dict it was
\* called on, whether its key was in that dict, that dict's least
\* timestamp, the items its eviction step removed
PutRecord(cache, cache_key) ==
    [ called     |-> TRUE,
      key        |-> cache_key,
      present    |-> CacheIndex(cache, cache_key) # 0,
      len_before |-> Len(cache),
      min_before |-> IF cache = << >> THEN 0
                     ELSE cache[CHOOSE i \in 1..Len(cache) :
                                   \A j \in 1..Len(cache) :
                                       cache[i].timestamp <= cache[j].timestamp].timestamp,
      removed    |-> LET kept == EvictIfFull(cache) IN
                     { [key |-> cache[i].key, timestamp |-> cache[i].timestamp] :
                       i \in { j \in 1..Len(cache) :
                                  \A k \in 1..Len(kept) : kept[k].key # cache[j].key } } ]

NoPut == [ called |-> FALSE, key |-> "", present |-> FALSE, len_before |-> 0, min_before |-> 0,
           removed |-> {} ]

-----------------------------------------------------------------------------
(* Bounds and inputs of the keyword search *)

MaxRequests == 2    \* requests that can be in flight together
MaxSearches == 2    \* searches started in one run
MaxTicks    == 2    \* clock advances in one run

Reqs == 1..MaxRequests

\* the steps the clock advances by: 299 and then 1 make an age of exactly 300
TickSteps == {1, 299}

\* what the clients of a run send: the queries, body filters and limits
Clients(queries, bodies, limits) ==
    [queries |-> queries, bodies |-> bodies, limits |-> limits]

OldestQuery == "craters"

\* the clients of the runs about expiry and capacity
CacheClients == Clients({OldestQuery, "Mars mons"}, {None}, {1, 10})

\* what the remote parser can answer with a 200 response
RemoteValues ==
    { ParsedArray,
      ParsedObject(Some("Mars"), Some("crater"), Some("large"), << "gale", "big" >>, 90) }

RemoteOutcomes ==
    { Remote(k, ParsedArray) : k \in RemoteKinds \ {"content"} }
    \cup { Remote("content", v) : v \in RemoteValues }

\* the remote outcomes a search is run against: one failure, every answer
SearchRemoteOutcomes ==
    { Remote("timeout", ParsedArray) } \cup { Remote("content", v) : v \in RemoteValues }

SummaryOutcomes == {"ok", "failed"}

\* The cache of a process that has served n searches before the run starts:
\* first OldestQuery at time 0, then n - 1 further queries at time 1, each
\* answered through the fallback parser with the default limit.
Prefills == {0, _cache_max_size}

DefaultLimit == 10

FillerQuery(i) == "f" \o ToString(i)

EarlierQuery(i) == IF i = 1 THEN OldestQuery ELSE FillerQuery(i - 1)
EarlierTime(i)  == IF i = 1 THEN 0 ELSE 1

EarlierResponse(query) ==
    LET rec  == AfterParse([BlankReq EXCEPT !.query = query, !.limit = DefaultLimit],
                           _fallback_parser(query, None))
        done == Finish(rec, IF WantsSummary(rec)
                            THEN Some(generate_search_summary(
                                          rec.pending[1].results, FALSE, "failed"))
                            ELSE None)
    IN  done.response[1]

Prefilled(n) ==
    [i \in 1..n |-> [key |-> _get_cache_key(EarlierQuery(i), None),
                     result |-> EarlierResponse(EarlierQuery(i)),
                     timestamp |-> EarlierTime(i)]]

\* the cache keys the run's searches can use
ActiveKeys(c) == { _get_cache_key(q, b) : q \in c.queries, b \in c.bodies }

\* the history keeps the latest store of each active key
PrefilledHistory(n, c) ==
    { [key |-> Prefilled(n)[i].key, result |-> Prefilled(n)[i].result,
       time |-> Prefilled(n)[i].timestamp, evicted |-> FALSE] :
      i \in { j \in 1..n : Prefilled(n)[j].key \in ActiveKeys(c) } }

-----------------------------------------------------------------------------
(* The keyword search as a state machine.  A request runs without a switch
   between two awaits that suspend; the two that can suspend are the remote
   parser call and the remote summary call, and neither is made without an
   API key. *)

SearchIdle == spc = "off" /\ sreq = << >> /\ served = 0 /\ _model = FALSE

ParserIdle == ppc = "off" /\ pcall = << >>

TextIdle == tpc = "off" /\ tcall = << >>

ModelIdle == gpc = << >> /\ loads = 0 /\ handle = 0

LookupIdle == lpc = "off" /\ lcall = << >>

OtherIdle == SearchIdle /\ ParserIdle /\ TextIdle /\ ModelIdle /\ LookupIdle

Init ==
    /\ clients = CacheClients
    /\ \E n \in Prefills :
          /\ _search_cache = Prefilled(n)
          /\ lastStore = PrefilledHistory(n, CacheClients)
          /\ now = IF n = 0 THEN 0 ELSE 1
    /\ lastPut = NoPut
    /\ ticks = 0
    /\ DEEPSEEK_API_KEY \in BOOLEAN
    /\ pc = [r \in Reqs |-> "idle"]
    /\ req = [r \in Reqs |-> BlankReq]
    /\ issued = 0
    /\ OtherIdle

\* lines 179-190: build the response, cache it, return it
StoreAndReturn(r, rec, cache) ==
    /\ _search_cache' = _cache_result(cache, rec.cache_key, rec.response[1], now)
    /\ lastStore' = HistoryAfterStore(lastStore, cache, rec.cache_key,
                                      rec.response[1], now)
    /\ lastPut' = PutRecord(cache, rec.cache_key)
    /\ req' = [req EXCEPT ![r] = rec]
    /\ pc' = [pc EXCEPT ![r] = "done"]

\* the request from the parser's answer on, up to its next suspension
Proceed(r, rec, cache) ==
    IF rec.status = 500
    THEN /\ req' = [req EXCEPT ![r] = rec]
         /\ pc' = [pc EXCEPT ![r] = "done"]
         /\ _search_cache' = cache
         /\ UNCHANGED << lastStore, lastPut >>
    ELSE IF WantsSummary(rec) /\ DEEPSEEK_API_KEY
    THEN /\ req' = [req EXCEPT ![r] = rec]
         /\ pc' = [pc EXCEPT ![r] = "await_summary"]
         /\ _search_cache' = cache
         /\ UNCHANGED << lastStore, lastPut >>
    ELSE StoreAndReturn(
             r,
             Finish(rec, IF WantsSummary(rec)
                         THEN Some(generate_search_summary(
                                       rec.pending[1].results, FALSE, "failed"))
                         ELSE None),
             cache)

\* a request arrives, on a handler that is free or has returned: the cache
\* lookup, and what follows without suspension
Search(r) ==
    /\ pc[r] \in {"idle", "done"}
    /\ issued < MaxSearches
    /\ issued' = issued + 1
    /\ \E query \in clients.queries, target_body \in clients.bodies,
          limit \in clients.limits :
          LET lk == Lookup(query, target_body, limit, _search_cache, lastStore, now)
          IN  IF lk.rec.hit
              THEN /\ req' = [req EXCEPT ![r] = lk.rec]
                   /\ pc' = [pc EXCEPT ![r] = "done"]
                   /\ _search_cache' = lk.cache
                   /\ UNCHANGED << lastStore, lastPut >>
              ELSE IF DEEPSEEK_API_KEY
              THEN /\ req' = [req EXCEPT ![r] = lk.rec]
                   /\ pc' = [pc EXCEPT ![r] = "await_parse"]
                   /\ _search_cache' = lk.cache
                   /\ UNCHANGED << lastStore, lastPut >>
              ELSE Proceed(r,
                           AfterParse(lk.rec,
                                      parse_query_with_deepseek(
                                          query, target_body, FALSE,
                                          Remote("error", ParsedArray))),
                           lk.cache)
    /\ UNCHANGED << clients, now, ticks, DEEPSEEK_API_KEY, searchVars, parserVars, textVars, modelVars, lookupVars >>

\* the remote parser call of a suspended request ends
ParseReturns(r) ==
    /\ pc[r] = "await_parse"
    /\ \E remote \in SearchRemoteOutcomes :
          Proceed(r,
                  AfterParse(req[r],
                             parse_query_with_deepseek(
                                 req[r].query, req[r].target_body,
                                 DEEPSEEK_API_KEY, remote)),
                  _search_cache)
    /\ UNCHANGED << clients, now, ticks, DEEPSEEK_API_KEY, issued, searchVars, parserVars, textVars, modelVars, lookupVars >>

\* the remote summary call of a suspended request ends
SummaryReturns(r) ==
    /\ pc[r] = "await_summary"
    /\ \E remote \in SummaryOutcomes :
          StoreAndReturn(
              r,
              Finish(req[r],
                     Some(generate_search_summary(req[r].pending[1].results,
                                                  DEEPSEEK_API_KEY, remote))),
              _search_cache)
    /\ UNCHANGED << clients, now, ticks, DEEPSEEK_API_KEY, issued, searchVars, parserVars, textVars, modelVars, lookupVars >>

\* time passes
Tick ==
    /\ ticks < MaxTicks
    /\ ticks' = ticks + 1
    /\ \E d \in TickSteps : now' = now + d
    /\ UNCHANGED << clients, DEEPSEEK_API_KEY, _search_cache, pc, req, issued,
                    lastStore, lastPut,
                    searchVars, parserVars, textVars, modelVars, lookupVars >>

Next ==
    \/ \E r \in Reqs : Search(r)
    \/ \E r \in Reqs : ParseReturns(r)
    \/ \E r \in Reqs : SummaryReturns(r)
    \/ Tick

Spec == Init /\ [][Next]_vars

-----------------------------------------------------------------------------
(* Properties of the result cache *)

\* a request that has looked the cache up
Looked(r) == pc[r] # "idle"

\* a request whose pipeline has got past the parser call
PastParser(r) == pc[r] \in {"await_summary", "done"}

\* the age, at the lookup of request r, of the latest store under its key
AgeOfPrior(r) == req[r].looked_at - req[r].prior[1].time

\* C1 as stated: once a response has been stored under a key, a search with
\* that key made less than 300 seconds after the store returns the stored
\* response and invokes no parser, catalog query or summary; one made 300
\* seconds or more after it misses and runs the pipeline.
C1_HitWithinTTLAsStated ==
    \A r \in Reqs :
        (Looked(r) /\ req[r].prior # None) =>
            /\ AgeOfPrior(r) < CacheTTL =>
                  /\ req[r].hit
                  /\ req[r].response = Some(req[r].prior[1].result)
                  /\ req[r].calls = {}
            /\ AgeOfPrior(r) >= CacheTTL =>
                  /\ ~req[r].hit
                  /\ PastParser(r) => "parser" \in req[r].calls

\* C1 amended: the same, for the latest store under the key and provided no
\* capacity overflow has evicted the entry since; an evicted entry is a miss.
C1_HitWithinTTLUnlessEvicted ==
    \A r \in Reqs :
        (Looked(r) /\ req[r].prior # None) =>
            /\ (AgeOfPrior(r) < CacheTTL /\ ~req[r].prior[1].evicted) =>
                  /\ req[r].hit
                  /\ req[r].response = Some(req[r].prior[1].result)
                  /\ req[r].calls = {}
            /\ (AgeOfPrior(r) >= CacheTTL \/ req[r].prior[1].evicted) =>
                  /\ ~req[r].hit
                  /\ PastParser(r) => "parser" \in req[r].calls

\* C1 witness: a search stored its response and a later search with the same
\* key, 299 seconds after, was served that response
C1_Witness ==
    \E r1, r2 \in Reqs :
        /\ r1 # r2
        /\ req[r1].stored
        /\ req[r2].hit
        /\ req[r2].cache_key = req[r1].cache_key
        /\ req[r2].prior # None
        /\ req[r2].prior[1].result = req[r1].response[1]
        /\ AgeOfPrior(r2) = CacheTTL - 1
        /\ req[r2].response = req[r1].response

\* C2: after any sequence of lookups and stores, re-insertion of a present
\* key included, the result cache holds at most 100 entries
C2_CacheWithinCapacity ==
    Len(_search_cache) <= _cache_max_size

\* C2 witness: _cache_result was called on a full dict, which is full again
C2_Witness ==
    /\ lastPut.called
    /\ lastPut.len_before = _cache_max_size
    /\ Len(_search_cache) = _cache_max_size

\* C3: a lookup that finds an entry aged 300 seconds or more reports a miss
\* and leaves the key out of the dict; one that finds a younger entry returns
\* that entry's response; one that finds none reports a miss.
C3_ExpiredNeverReturned ==
    \A r \in Reqs :
        Looked(r) =>
            IF req[r].found = None THEN ~req[r].hit
            ELSE IF req[r].looked_at - req[r].found[1].timestamp >= CacheTTL
                 THEN ~req[r].hit /\ req[r].deleted
                 ELSE /\ req[r].hit
                      /\ ~req[r].deleted
                      /\ req[r].response = Some(req[r].found[1].result)

\* C3 witness: a lookup met an entry aged exactly 300 seconds
C3_Witness ==
    \E r \in Reqs :
        /\ Looked(r)
        /\ req[r].found # None
        /\ req[r].looked_at - req[r].found[1].timestamp = CacheTTL
        /\ ~req[r].hit

\* the step of request r is a cache hit
HitStep(r) == req'[r] # req[r] /\ req'[r].hit

\* C4: a _cache_result call on a dict of 100 entries evicts exactly one entry,
\* one of least timestamp, and a call on a smaller dict evicts none; a cache
\* hit leaves the dict, timestamps included, as it was.
C4_EvictsOldestInserted ==
    [][ /\ (lastPut'.called /\ lastPut'.len_before >= _cache_max_size) =>
               /\ Cardinality(lastPut'.removed) = 1
               /\ \A e \in lastPut'.removed : e.timestamp = lastPut'.min_before
        /\ (lastPut'.called /\ lastPut'.len_before < _cache_max_size) =>
               lastPut'.removed = {}
        /\ \A r \in Reqs : HitStep(r) => _search_cache' = _search_cache
      ]_vars

\* C4 witness: the oldest entry was served as a hit and was then the one a
\* later store evicted
C4_Witness ==
    \E r1, r2 \in Reqs :
        /\ req[r1].hit
        /\ req[r2].stored
        /\ req[r2].looked_at >= req[r1].looked_at
        /\ lastPut.called
        /\ lastPut.key = req[r2].cache_key
        /\ lastPut.removed = {[key |-> req[r1].cache_key,
                               timestamp |-> req[r1].found[1].timestamp]}
        /\ \E i \in 1..Len(_search_cache) :
               _search_cache[i].timestamp > lastPut.min_before

\* C8 as stated, for the keyword endpoint: a successful response holds at most
\* as many results as the limit of the request it answers
C8_ResultsWithinLimit ==
    \A r \in Reqs :
        (pc[r] = "done" /\ req[r].status = 200) =>
            Len(req[r].response[1].results) <= req[r].limit

\* C19 as stated, for the keyword-ranked search: every feature entry of a
\* successful response satisfies every filter present in the parsed intent
\* of that response: body equal in any case, category contained, diameter
\* over 50 for 'large' and under 10 for 'small' (the remote parser's intent
\* has no origin filter)
C19_ResultsSatisfyFilters ==
    \A r \in Reqs :
        (pc[r] = "done" /\ req[r].status = 200) =>
            LET response == req[r].response[1]
                intent   == response.parsed_query
            IN  \A i \in 1..Len(response.results) :
                    RowMatches(RowOf(response.results[i].id),
                               Or(intent.target_body, req[r].target_body),
                               intent.category, intent.size_filter, FALSE)

\* request r takes a step
StepOf(r) == req'[r] # req[r] \/ pc'[r] # pc[r]

\* the dict after the get of the request that arrives in this step as r,
\* and after the put of the request r that returns in it
AfterGet(r) == _get_cached_result(_search_cache, req'[r].cache_key, now).cache
AfterPut(cache, r) == _cache_result(cache, req'[r].cache_key, req'[r].response[1], now)

\* Every step of a request changes the dict by whole calls only, each on
\* the dict as the call before it left it: the get of an arriving request,
\* then the put of a request that returns a computed response.
WholeCalls ==
    /\ \A r \in Reqs :
          StepOf(r) =>
              LET got == IF issued' # issued THEN AfterGet(r) ELSE _search_cache
              IN  _search_cache' = IF pc'[r] = "done" /\ req'[r].stored
                                   THEN AfterPut(got, r) ELSE got
    /\ (\A r \in Reqs : ~StepOf(r)) => _search_cache' = _search_cache

\* no two items of the dict have the same key
KeysDistinct ==
    Cardinality({ _search_cache[i].key : i \in 1..Len(_search_cache) })
        = Len(_search_cache)

\* a request that has ended has answered 200, or failed on a parser answer
\* that is no JSON object and on nothing else
EndsWell(r) ==
    pc[r] = "done" =>
        \/ req[r].status = 200
        \/ req[r].status = 500 /\ ~req[r].hit /\ req[r].calls = {"parser"}

\* a hit serves the item found, aged less than the TTL
HitIsFresh(r) ==
    req[r].hit =>
        /\ req[r].found # None
        /\ req[r].looked_at - req[r].found[1].timestamp < CacheTTL
        /\ req[r].response = Some(req[r].found[1].result)

\* C21: the result cache is safe under concurrent searches.  Whatever the
\* interleaving of the requests at their awaits, each get and each put acts
\* on the dict as one whole call, no request fails because of the cache, the
\* dict holds at most 100 entries with distinct keys, and only entries
\* younger than 300 seconds are served.
C21_CacheSafeWhenInterleaved ==
    /\ [](/\ Len(_search_cache) <= _cache_max_size
          /\ KeysDistinct
          /\ \A r \in Reqs : Looked(r) => (EndsWell(r) /\ HitIsFresh(r)))
    /\ [][WholeCalls]_vars

\* two searches for one key were both waiting when neither had stored: both
\* missed at the same time, both stored, and the dict has the key once
C21_Witness ==
    \E r1, r2 \in Reqs :
        /\ r1 # r2
        /\ req[r1].cache_key = req[r2].cache_key
        /\ ~req[r1].hit /\ ~req[r2].hit
        /\ req[r1].looked_at = req[r2].looked_at
        /\ req[r1].stored /\ req[r2].stored
        /\ CacheIndex(_search_cache, req[r1].cache_key) # 0

\* The score as the keyword-overlap formula states it, in units of 10^-5:
\* the keyword points and the two bonuses, scaled by the intent's
\* confidence, which the parsers give in hundredths.
StatedScore(feature, parsed_query) ==
    ((SumKeywordPoints(feature, parsed_query.search_keywords)
      + (IF /\ Truthy(parsed_query.category)
            /\ Contains(LowerCategory[feature.id], Lower(parsed_query.category[1]))
         THEN 200000 ELSE 0)
      + (IF /\ Truthy(parsed_query.target_body)
            /\ Lower(parsed_query.target_body[1]) = LowerBody[feature.id]
         THEN 100000 ELSE 0))
     * parsed_query.confidence) \div 100

\* C25 as stated: every result of a keyword search carries the score of the
\* stated formula: 1.0 per keyword in the name, 0.5 in the category, 0.3 in
\* the description, 2.0 for the intent's category, 1.0 for its body, the sum
\* scaled by the intent's confidence, and no other term.
C25_ScoreAsStated ==
    \A r \in Reqs :
        (pc[r] = "done" /\ req[r].status = 200) =>
            LET response == req[r].response[1]
            IN  \A i \in 1..Len(response.results) :
                    response.results[i].match_score
                        = Round4(StatedScore(RowOf(response.results[i].id),
                                             response.parsed_query))

\* the items under another key that the latest _cache_result call removed
RemovedOthers == { x \in lastPut.removed : x.key # lastPut.key }

\* C30 as stated: _cache_result removes an entry stored under another key
\* only on overflow, that is only when the dict holds 100 entries and the
\* key being stored is not among them; the second of two stores under one
\* key overwrites that key's entry and evicts no other.
C30_EvictsOnlyOnOverflow ==
    (lastPut.called /\ RemovedOthers # {}) =>
        (lastPut.len_before = _cache_max_size /\ ~lastPut.present)

-----------------------------------------------------------------------------
(* parse_query_with_deepseek on its own: one call, from its start to its
   return, against every outcome of the remote request *)

\* the cache and its requests, at rest
CacheIdle ==
    /\ now = 0 /\ ticks = 0
    /\ _search_cache = << >>
    /\ lastStore = {} /\ lastPut = NoPut
    /\ pc = [r \in Reqs |-> "idle"]
    /\ req = [r \in Reqs |-> BlankReq]
    /\ issued = 0

ParseClients ==
    Clients({"craters", "Large craters on the Moon", "recent wildfires", "Mars mons"},
            {None, Some(""), Some("Moon")}, {DefaultLimit})

\* what the remote parser can answer with a 200 response: a JSON value that
\* is no object, an object that names a body, one that names none
ParseValues ==
    RemoteValues \cup { ParsedObject(None, Some("mons"), None, << "mons" >>, 80) }

ParseOutcomes ==
    { Remote(k, ParsedArray) : k \in RemoteKinds \ {"content"} }
    \cup { Remote("content", v) : v \in ParseValues }

ParseCall(query, target_body) ==
    [ query |-> query, target_body |-> target_body, remote |-> None, result |-> None ]

InitParse ==
    /\ clients = ParseClients
    /\ DEEPSEEK_API_KEY \in BOOLEAN
    /\ CacheIdle
    /\ SearchIdle
    /\ TextIdle /\ ModelIdle /\ LookupIdle
    /\ ppc = "ready"
    /\ \E q \in ParseClients.queries, b \in ParseClients.bodies :
          pcall = ParseCall(q, b)

\* lines 42-44 without an API key; with one, up to the await of the request
ParseBegins ==
    /\ ppc = "ready"
    /\ IF ~DEEPSEEK_API_KEY
       THEN /\ ppc' = "returned"
            /\ pcall' = [pcall EXCEPT
                   !.result = Some(parse_query_with_deepseek(
                                       pcall.query, pcall.target_body, FALSE,
                                       Remote("error", ParsedArray)))]
       ELSE /\ ppc' = "awaiting"
            /\ pcall' = pcall
    /\ UNCHANGED << cacheVars, searchVars, textVars, modelVars, lookupVars >>

\* lines 71-109: the request ends, one way or another, and the call returns
ParseEnds ==
    /\ ppc = "awaiting"
    /\ \E remote \in ParseOutcomes :
          pcall' = [pcall EXCEPT
              !.remote = Some(remote),
              !.result = Some(parse_query_with_deepseek(
                                  pcall.query, pcall.target_body, TRUE, remote))]
    /\ ppc' = "returned"
    /\ UNCHANGED << cacheVars, searchVars, textVars, modelVars, lookupVars >>

NextParse == ParseBegins \/ ParseEnds

SpecParse == InitParse /\ [][NextParse]_vars

\* the remote call of the finished parser call did not yield a JSON object:
\* there was no API key, or the request failed, or the content was no object
RemoteFailed ==
    \/ pcall.remote = None
    \/ pcall.remote[1].kind # "content"
    \/ pcall.remote[1].value.kind # "object"

\* C5 as stated: whenever the remote call does not yield a parsed object
\* (missing key, timeout, non-200 status, body that is not JSON, JSON of the
\* wrong shape, any other exception) the call returns what _fallback_parser
\* returns for the same query and body override
C5_FallbackOnEveryFailure ==
    (ppc = "returned" /\ RemoteFailed) =>
        pcall.result = Some(_fallback_parser(pcall.query, pcall.target_body))

-----------------------------------------------------------------------------
(* backend/ai_service.py: input checks *)

MAX_QUERY_LENGTH == 500
MIN_QUERY_LENGTH == 2

LowerSet == { Char(LowerLetters, i) : i \in 1..Len(LowerLetters) }
DigitSet == { Char(Digits, i) : i \in 1..Len(Digits) }

\* str.isalnum() of one character
IsAlnum(c) == c \in UpperSet \cup LowerSet \cup DigitSet

\* \w of the re module
IsWord(c) == IsAlnum(c) \/ c = "_"

RECURSIVE LStrip(_)
LStrip(s) ==
    IF s # "" /\ IsSpace(Char(s, 1)) THEN LStrip(SubSeq(s, 2, Len(s))) ELSE s

RECURSIVE RStrip(_)
RStrip(s) ==
    IF s # "" /\ IsSpace(Char(s, Len(s))) THEN RStrip(SubSeq(s, 1, Len(s) - 1)) ELSE s

\* str.strip()
Strip(s) == RStrip(LStrip(s))

\* U+0001, written as itself: a control character that is not whitespace,
\* as NUL is
SOH == ""

\* the characters below 32, other than "\n" and "\t", that the alphabet of
\* the model has; lines 64 and 67 remove them (NUL is one of those below 32)
ControlChars == {"\r", "\f", SOH}

\* the characters lo..hi of s without the control characters (computed by
\* halves, so that a text of several hundred characters nests shallowly)
RECURSIVE DropControl(_, _, _)
DropControl(s, lo, hi) ==
    IF lo > hi THEN ""
    ELSE IF lo = hi THEN (IF Char(s, lo) \in ControlChars THEN "" ELSE Char(s, lo))
    ELSE LET mid == (lo + hi) \div 2
         IN  DropControl(s, lo, mid) \o DropControl(s, mid + 1, hi)

\* re.sub(r'\s+', ' ', s), for the characters lo..hi of s: a whitespace
\* character becomes a space when it starts a run and nothing otherwise
RECURSIVE CollapseSpace(_, _, _)
CollapseSpace(s, lo, hi) ==
    IF lo > hi THEN ""
    ELSE IF lo = hi
    THEN (IF ~IsSpace(Char(s, lo)) THEN Char(s, lo)
          ELSE IF lo > 1 /\ IsSpace(Char(s, lo - 1)) THEN "" ELSE " ")
    ELSE LET mid == (lo + hi) \div 2
         IN  CollapseSpace(s, lo, mid) \o CollapseSpace(s, mid + 1, hi)

sanitize_input(text) ==
    IF text = "" THEN ""
    ELSE LET stripped == Strip(text)
             kept     == DropControl(stripped, 1, Len(stripped))
         IN  CollapseSpace(kept, 1, Len(kept))

\* the characters of the first pattern, a character class; its last member,
\* the backquote, is not in the alphabet of the model
ShellChars == {";", "<", ">", "|", "&", "$"}

\* r"/\*.*\*/": an opening and a later closing mark with no newline between
HasBlockComment(s) ==
    \E i \in 1..(Len(s) - 3) :
        /\ SubSeq(s, i, i + 1) = "/*"
        /\ \E j \in (i + 2)..(Len(s) - 1) :
              /\ SubSeq(s, j, j + 1) = "*/"
              /\ \A k \in (i + 2)..(j - 1) : Char(s, k) # "\n"

\* r"\bfirst\s+second\b"
HasWordPair(s, first, second) ==
    \E i \in 1..(Len(s) - Len(first)) :
        LET a == i + Len(first)          \* first whitespace position
        IN  /\ SubSeq(s, i, a - 1) = first
            /\ (i = 1 \/ ~IsWord(Char(s, i - 1)))
            /\ \E k \in 1..Len(s) :
                  LET b == a + k                   \* where `second` starts
                      e == b + Len(second) - 1     \* where it ends
                  IN  /\ e <= Len(s)
                      /\ \A m \in a..(b - 1) : IsSpace(Char(s, m))
                      /\ SubSeq(s, b, e) = second
                      /\ (e = Len(s) \/ ~IsWord(Char(s, e + 1)))

\* any(re.search(pattern, query_lower) for pattern in DANGEROUS_PATTERNS)
DANGEROUS_PATTERNS(query_lower) ==
    \/ \E i \in 1..Len(query_lower) : Char(query_lower, i) \in ShellChars
    \/ Contains(query_lower, "--")
    \/ HasBlockComment(query_lower)
    \/ HasWordPair(query_lower, "union", "select")
    \/ HasWordPair(query_lower, "drop", "table")
    \/ Contains(query_lower, "<script")

\* the characters line 105 does not count as special
PlainPunctuation == {" ", "-", "'", ",", "."}

SpecialCharCount(query) ==
    Cardinality({ i \in 1..Len(query) :
                    ~IsAlnum(Char(query, i)) /\ Char(query, i) \notin PlainPunctuation })

Valid == [is_valid |-> TRUE, error_msg |-> None]
Invalid(msg) == [is_valid |-> FALSE, error_msg |-> Some(msg)]

\* validate_query with the upper bound of the length exclusive
ValidateQueryBelowMax(query) ==
    IF query = "" \/ Strip(query) = "" THEN Invalid("Query cannot be empty")
    ELSE IF Len(query) < MIN_QUERY_LENGTH
    THEN Invalid("Query must be at least 2 characters")
    ELSE IF Len(query) >= MAX_QUERY_LENGTH
    THEN Invalid("Query must be less than 500 characters")
    ELSE IF DANGEROUS_PATTERNS(Lower(query))
    THEN Invalid("Query contains invalid characters or patterns")
    ELSE IF 10 * SpecialCharCount(query) > 3 * Len(query)
    THEN Invalid("Query contains too many special characters")
    ELSE Valid

\* validate_query matching the patterns against the query as typed
ValidateQueryCaseSensitive(query) ==
    IF query = "" \/ Strip(query) = "" THEN Invalid("Query cannot be empty")
    ELSE IF Len(query) < MIN_QUERY_LENGTH
    THEN Invalid("Query must be at least 2 characters")
    ELSE IF Len(query) > MAX_QUERY_LENGTH
    THEN Invalid("Query must be less than 500 characters")
    ELSE IF DANGEROUS_PATTERNS(query)
    THEN Invalid("Query contains invalid characters or patterns")
    ELSE IF 10 * SpecialCharCount(query) > 3 * Len(query)
    THEN Invalid("Query contains too many special characters")
    ELSE Valid

validate_query(query) ==
    IF query = "" \/ Strip(query) = "" THEN Invalid("Query cannot be empty")
    ELSE IF Len(query) < MIN_QUERY_LENGTH
    THEN Invalid("Query must be at least 2 characters")
    ELSE IF Len(query) > MAX_QUERY_LENGTH
    THEN Invalid("Query must be less than 500 characters")
    ELSE IF DANGEROUS_PATTERNS(Lower(query))
    THEN Invalid("Query contains invalid characters or patterns")
    \* special_char_count > len(query) * 0.3
    ELSE IF 10 * SpecialCharCount(query) > 3 * Len(query)
    THEN Invalid("Query contains too many special characters")
    ELSE Valid

-----------------------------------------------------------------------------
(* backend/ai_service.py: the embedding *)

\* the dimension of the vectors of all-MiniLM-L6-v2
EmbeddingDim == 384

\* An embedding is given by its dimension, whether it is the zero vector,
\* and, for an encoded text, which of the similarity profiles below its
\* direction has against the stored embeddings of the catalog.
ZeroVector == [kind |-> "vector", dim |-> EmbeddingDim, zero |-> TRUE, profile |-> 0]
Encoded(p) == [kind |-> "vector", dim |-> EmbeddingDim, zero |-> FALSE, profile |-> p]
Raised(exception, message) ==
    [kind |-> "raised", exception |-> exception, message |-> message]

\* cosine similarities of an encoded query against each row's embedding
Profiles ==
    << [id \in FeatureIds |-> CASE id = 1 -> 80000 [] id = 2 -> 94995
                                [] id = 3 -> 96004 [] OTHER -> 0],
       [id \in FeatureIds |-> CASE id = 1 -> 95000 [] id = 2 -> 95000
                                [] id = 3 -> -12004 [] OTHER -> 0] >>

\* What loading and running the model can do: each step succeeds, raises a
\* ValueError, or raises another exception.
ModelOutcome(load, encode, profile) ==
    [load |-> load, encode |-> encode, profile |-> profile]

ModelOutcomes ==
    { ModelOutcome("ok", "ok", p) : p \in 1..Len(Profiles) }
    \cup { ModelOutcome(l, "ok", 1) : l \in {"value_error", "error"} }
    \cup { ModelOutcome("ok", e, 1) : e \in {"value_error", "error"} }

\* generate_embedding with get_model inlined: the value returned or the
\* exception raised, and whether the global model is loaded afterwards
generate_embedding(text, validate, model, outcome) ==
    LET t == sanitize_input(text)
        v == validate_query(t)
        \* lines 146-152: a ValueError is re-raised, anything else is
        \* answered with the zero vector
        Failed(kind) == IF kind = "value_error"
                        THEN Raised("ValueError", "model failure")
                        ELSE ZeroVector
    IN  IF validate /\ ~v.is_valid
        THEN [result |-> Raised("ValueError", "Invalid query: " \o v.error_msg[1]),
              model  |-> model]
        ELSE IF t = ""
        THEN [result |-> ZeroVector, model |-> model]
        ELSE IF ~model /\ outcome.load # "ok"
        THEN [result |-> Failed(outcome.load), model |-> FALSE]
        ELSE IF outcome.encode # "ok"
        THEN [result |-> Failed(outcome.encode), model |-> TRUE]
        ELSE [result |-> Encoded(outcome.profile), model |-> TRUE]

\* cosine_similarity of a query embedding and the embedding of row id
cosine_similarity(embedding, id) ==
    IF embedding.zero THEN 0 ELSE Profiles[embedding.profile][id]

-----------------------------------------------------------------------------
(* backend/ai_service.py: parse_natural_query *)

BODY_KEYWORDS ==
    << << "red planet", "Mars" >>, << "moon", "Moon" >>, << "lunar", "Moon" >>,
       << "selenian", "Moon" >>, << "the moon", "Moon" >>, << "mars", "Mars" >>,
       << "martian", "Mars" >>, << "mercury", "Mercury" >>,
       << "mercurian", "Mercury" >>, << "venus", "Venus" >>,
       << "venusian", "Venus" >>, << "earth", "Earth" >>,
       << "terrestrial", "Earth" >>, << "terra", "Earth" >> >>

EVENT_KEYWORDS ==
    << << "dust storm", "Dust and Haze" >>, << "dust storms", "Dust and Haze" >>,
       << "sandstorm", "Dust and Haze" >>, << "sandstorms", "Dust and Haze" >>,
       << "dust devil", "Dust and Haze" >>, << "dust cloud", "Dust and Haze" >>,
       << "haze", "Dust and Haze" >>,
       << "wildfire", "Wildfires" >>, << "wildfires", "Wildfires" >>,
       << "forest fire", "Wildfires" >>, << "fire", "Wildfires" >>,
       << "fires", "Wildfires" >>, << "burn", "Wildfires" >>,
       << "burning", "Wildfires" >>,
       << "volcano", "Volcanoes" >>, << "volcanoes", "Volcanoes" >>,
       << "volcanic", "Volcanoes" >>, << "eruption", "Volcanoes" >>,
       << "eruptions", "Volcanoes" >>, << "lava", "Volcanoes" >>,
       << "hurricane", "Severe Storms" >>, << "cyclone", "Severe Storms" >>,
       << "typhoon", "Severe Storms" >>, << "tornado", "Severe Storms" >>,
       << "storm", "Severe Storms" >>, << "storms", "Severe Storms" >>,
       << "tempest", "Severe Storms" >>,
       << "flood", "Floods" >>, << "floods", "Floods" >>,
       << "flooding", "Floods" >>, << "inundation", "Floods" >>,
       << "earthquake", "Earthquakes" >>, << "earthquakes", "Earthquakes" >>,
       << "seismic", "Earthquakes" >>, << "tremor", "Earthquakes" >>,
       << "quake", "Earthquakes" >>,
       << "drought", "Drought" >>, << "droughts", "Drought" >>,
       << "dry spell", "Drought" >>,
       << "sea ice", "Sea and Lake Ice" >>, << "lake ice", "Sea and Lake Ice" >>,
       << "ice", "Sea and Lake Ice" >>,
       << "snow", "Snow" >>, << "snowfall", "Snow" >>, << "blizzard", "Snow" >> >>

category_patterns ==
    << << "crater", << "crater", "impact", "basin" >> >>,
       << "mons",   << "mountain", "peak", "mons" >> >>,
       << "montes", << "mountains", "range", "montes" >> >>,
       << "vallis", << "valley", "vallis" >> >>,
       << "mare",   << "sea", "mare", "plain" >> >>,
       << "rima",   << "rille", "channel", "rima" >> >>,
       << "rupes",  << "cliff", "scarp", "rupes" >> >>,
       << "dorsum", << "ridge", "dorsum" >> >>,
       << "lacus",  << "lake", "lacus" >> >>,
       << "palus",  << "marsh", "palus" >> >> >>

\* the key of the first entry of an ordered table contained in s, or None
FirstKey(table, s) ==
    IF \E i \in 1..Len(table) : Contains(s, table[i][1])
    THEN Some(table[CHOOSE i \in 1..Len(table) :
                       /\ Contains(s, table[i][1])
                       /\ \A j \in 1..(i - 1) : ~Contains(s, table[j][1])][1])
    ELSE None

\* the first category whose keyword list has a member contained in s
FirstCategory(s) ==
    IF \E i \in 1..Len(category_patterns) : ContainsAny(s, category_patterns[i][2])
    THEN Some(category_patterns[
                 CHOOSE i \in 1..Len(category_patterns) :
                     /\ ContainsAny(s, category_patterns[i][2])
                     /\ \A j \in 1..(i - 1) : ~ContainsAny(s, category_patterns[j][2])][1])
    ELSE None

UpperOf == [c \in LowerSet |->
               Char(UpperLetters, CHOOSE i \in 1..26 : Char(LowerLetters, i) = c)]

\* str.capitalize()
Capitalize(s) ==
    IF s = "" THEN ""
    ELSE (IF Char(s, 1) \in LowerSet THEN UpperOf[Char(s, 1)] ELSE Char(s, 1))
         \o Lower(SubSeq(s, 2, Len(s)))

\* The dict parse_natural_query returns, by the keys its callers read; an
\* absent key is None (FALSE for the two flags).
NaturalQuery(query, error, search_type, event, keyword, body, category, size, origin) ==
    [ semantic_query |-> query,
      error          |-> error,
      search_type    |-> search_type,
      event_category |-> event,
      event_keyword  |-> keyword,
      target_body    |-> body,
      category       |-> category,
      size_filter    |-> size,
      origin_filter  |-> origin,
      warning        |-> search_type = "event" ]

\* parse_natural_query looking for a catalog category in event queries too
ParseNaturalAlwaysCategory(raw_query, target_body) ==
    LET query       == sanitize_input(raw_query)
        v           == validate_query(query)
        query_lower == Lower(query)
        event       == FirstMatch(EVENT_KEYWORDS, query_lower)
        search_type == IF event # None THEN "event" ELSE "feature"
        detected    == FirstMatch(BODY_KEYWORDS, query_lower)
        body        == IF detected # None THEN detected
                       ELSE IF Truthy(target_body) THEN target_body
                       ELSE None
        category    == IF FirstCategory(query_lower) # None
                       THEN Some(Capitalize(FirstCategory(query_lower)[1]))
                       ELSE None
        size_filter == IF ContainsAny(query_lower, << "large", "big", "huge", "major" >>)
                       THEN Some("large")
                       ELSE IF ContainsAny(query_lower, << "small", "tiny", "minor" >>)
                       THEN Some("small")
                       ELSE None
        origin      == ContainsAny(query_lower, << "named after", "origin", "scientist",
                                                   "astronaut", "person" >>)
    IN  IF ~v.is_valid
        THEN NaturalQuery(query, v.error_msg, "feature", None, None, None, None,
                          None, FALSE)
        ELSE NaturalQuery(query, None, search_type, event,
                          FirstKey(EVENT_KEYWORDS, query_lower), body, category,
                          size_filter, origin)

\* parse_natural_query with the small words tried before the large ones
ParseNaturalSmallFirst(raw_query, target_body) ==
    LET query       == sanitize_input(raw_query)
        v           == validate_query(query)
        query_lower == Lower(query)
        event       == FirstMatch(EVENT_KEYWORDS, query_lower)
        search_type == IF event # None THEN "event" ELSE "feature"
        detected    == FirstMatch(BODY_KEYWORDS, query_lower)
        body        == IF detected # None THEN detected
                       ELSE IF Truthy(target_body) THEN target_body
                       ELSE None
        category    == IF search_type = "feature" /\ FirstCategory(query_lower) # None
                       THEN Some(Capitalize(FirstCategory(query_lower)[1]))
                       ELSE None
        size_filter == IF ContainsAny(query_lower, << "small", "tiny", "minor" >>)
                       THEN Some("small")
                       ELSE IF ContainsAny(query_lower, << "large", "big", "huge", "major" >>)
                       THEN Some("large")
                       ELSE None
        origin      == ContainsAny(query_lower, << "named after", "origin", "scientist",
                                                   "astronaut", "person" >>)
    IN  IF ~v.is_valid
        THEN NaturalQuery(query, v.error_msg, "feature", None, None, None, None,
                          None, FALSE)
        ELSE NaturalQuery(query, None, search_type, event,
                          FirstKey(EVENT_KEYWORDS, query_lower), body, category,
                          size_filter, origin)

parse_natural_query(raw_query, target_body) ==
    LET query       == sanitize_input(raw_query)
        v           == validate_query(query)
        query_lower == Lower(query)
        event       == FirstMatch(EVENT_KEYWORDS, query_lower)
        search_type == IF event # None THEN "event" ELSE "feature"
        detected    == FirstMatch(BODY_KEYWORDS, query_lower)
        body        == IF detected # None THEN detected
                       ELSE IF Truthy(target_body) THEN target_body
                       ELSE None
        category    == IF search_type = "feature" /\ FirstCategory(query_lower) # None
                       THEN Some(Capitalize(FirstCategory(query_lower)[1]))
                       ELSE None
        size_filter == IF ContainsAny(query_lower, << "large", "big", "huge", "major" >>)
                       THEN Some("large")
                       ELSE IF ContainsAny(query_lower, << "small", "tiny", "minor" >>)
                       THEN Some("small")
                       ELSE None
        origin      == ContainsAny(query_lower, << "named after", "origin", "scientist",
                                                   "astronaut", "person" >>)
    IN  IF ~v.is_valid
        THEN NaturalQuery(query, v.error_msg, "feature", None, None, None, None,
                          None, FALSE)
        ELSE NaturalQuery(query, None, search_type, event,
                          FirstKey(EVENT_KEYWORDS, query_lower), body, category,
                          size_filter, origin)

-----------------------------------------------------------------------------
(* backend/eonet.py: the event feed *)

\* the keys of CATEGORY_MAPPING
CATEGORY_MAPPING ==
    { "Dust and Haze", "Wildfires", "Volcanoes", "Severe Storms", "Floods",
      "Earthquakes", "Drought", "Sea and Lake Ice", "Snow" }

\* What the remote feed can do with a request: raise (connection failure,
\* timeout, raise_for_status, a body that is not JSON) or answer with a list
\* of events.  An event is given by the number in its EONET id; the feed is
\* sent the limit but the code does not cut the answer to it.
MaxEvents == 2

FirstEventId == 1001

FeedAnswers == { [i \in 1..n |-> FirstEventId + i - 1] : n \in 0..MaxEvents }

\* search_events_by_category returns without a request for an unmapped name
FeedIsCalled(category_name) == category_name \in CATEGORY_MAPPING

-----------------------------------------------------------------------------
(* backend/search.py: the unified search *)

\* FeatureResult of an event (lines 147-160) and of a catalog row (212-224)
EventResult(event) ==
    [id |-> event, similarity_score |-> 95000, is_dynamic_event |-> TRUE]

FeatureResult(feature, score) ==
    [id |-> feature.id, similarity_score |-> Round4(score), is_dynamic_event |-> FALSE]

\* lines 201-205: the rows that have an embedding, each with its similarity
RECURSIVE ScoreBySimilarity(_, _)
ScoreBySimilarity(features, query_embedding) ==
    IF features = << >> THEN << >>
    ELSE (IF Head(features).embedding_data
          THEN << [score |-> cosine_similarity(query_embedding, Head(features).id),
                   item  |-> Head(features)] >>
          ELSE << >>)
         \o ScoreBySimilarity(Tail(features), query_embedding)

\* lines 168-196: the filtered catalog query
UnifiedRows(parsed_query, target_body) ==
    SelectRows(Catalog,
               Or(parsed_query.target_body, target_body),
               parsed_query.category,
               parsed_query.size_filter,
               parsed_query.origin_filter,
               1)

\* a variant that cuts the rows to the limit before it ranks them
UnifiedFeatureResultsCutFirst(parsed_query, target_body, query_embedding, limit) ==
    LET scored == SortDesc(SlicePrefix(
                               ScoreBySimilarity(UnifiedRows(parsed_query, target_body),
                                                 query_embedding),
                               limit))
    IN  [i \in 1..Len(scored) |-> FeatureResult(scored[i].item, scored[i].score)]

\* lines 207-226: the feature results, ranked and cut to the limit
UnifiedFeatureResults(parsed_query, target_body, query_embedding, limit) ==
    LET scored == SortDesc(ScoreBySimilarity(UnifiedRows(parsed_query, target_body),
                                             query_embedding))
        kept   == SlicePrefix(scored, limit)
    IN  [i \in 1..Len(kept) |-> FeatureResult(kept[i].item, kept[i].score)]

\* line 229: all_results.sort(key=lambda x: x.similarity_score or 0, reverse=True)
SortResults(all_results) ==
    LET keyed  == [i \in 1..Len(all_results) |->
                      [score |-> IF all_results[i].similarity_score = 0 THEN 0
                                 ELSE all_results[i].similarity_score,
                       item  |-> all_results[i]]]
        sorted == SortDesc(keyed)
    IN  [i \in 1..Len(sorted) |-> sorted[i].item]

\* a variant whose total_results counts the results kept after the cut
UnifiedResponseCountingKept(query, parsed_query, all_results, limit, event_count, feature_count) ==
    [ query         |-> query,
      parsed_query  |-> parsed_query,
      results       |-> SlicePrefix(SortResults(all_results), limit),
      total_results |-> Len(SlicePrefix(SortResults(all_results), limit)),
      event_count   |-> event_count,
      feature_count |-> feature_count ]

\* lines 231-238: the response
UnifiedResponse(query, parsed_query, all_results, limit, event_count, feature_count) ==
    [ query         |-> query,
      parsed_query  |-> parsed_query,
      results       |-> SlicePrefix(SortResults(all_results), limit),
      total_results |-> Len(all_results),
      event_count   |-> event_count,
      feature_count |-> feature_count ]

BlankQuery ==
    [ query |-> "", target_body |-> None, limit |-> 0, include_events |-> FALSE,
      parsed_query |-> None, embedding |-> None, outcome |-> None,
      feed |-> "not_called", events |-> << >>,
      status |-> 0, detail |-> "", response |-> None ]

\* lines 241-242: any exception becomes HTTP 500
Fail(rec, message) ==
    [rec EXCEPT !.status = 500, !.detail = "Search error: " \o message]

\* lines 144-162 and 168-239: the events the feed gave are appended, then the
\* catalog half runs and the response is built
Complete(rec, events) ==
    LET event_results   == [i \in 1..Len(events) |-> EventResult(events[i])]
        feature_results == UnifiedFeatureResults(rec.parsed_query[1], rec.target_body,
                                                 rec.embedding[1], rec.limit)
    IN  [rec EXCEPT
            !.events   = events,
            !.status   = 200,
            !.response = Some(UnifiedResponse(rec.query, rec.parsed_query[1],
                                              event_results \o feature_results,
                                              rec.limit, Len(events),
                                              Len(feature_results)))]

\* a variant in which a failure of the feed fails the search
AfterFeedRaisesFailing(rec) == Fail(rec, "feed failure")

\* lines 164-166: the feed raised; the search goes on with no event
AfterFeedRaises(rec) == Complete(rec, << >>)

\* a variant that asks the feed whether or not the request enables events
WantsEventsIgnoringFlag(rec) ==
    /\ rec.parsed_query[1].search_type = "event"
    /\ Truthy(rec.parsed_query[1].event_category)

\* lines 132-134: whether the search asks the feed
WantsEvents(rec) ==
    /\ rec.include_events
    /\ rec.parsed_query[1].search_type = "event"
    /\ Truthy(rec.parsed_query[1].event_category)

-----------------------------------------------------------------------------
(* backend/search.py and backend/search_deepseek.py: the GET endpoints that
   look one thing up, and GET /events.  One request is in progress at a
   time; lcall is the request in progress or the last one ended. *)

MaxLookups == 2    \* requests to these endpoints in one run

\* the event ids the feed knows
FeedEvents == { FirstEventId + i - 1 : i \in 1..MaxEvents }

\* the path and query arguments the clients send
LookupFeatureIds == {1, 4, 99}
LookupEventIds   == {FirstEventId, FirstEventId + 1, 9999}
LookupNames      == {"tycho", "MONS", "atlantis"}
LookupCategories == {None, Some("Wildfires"), Some("Landslides")}

\* a request: n counts the requests begun; feed is what became of its
\* request to the event feed
BlankLookup ==
    [ n |-> 0, endpoint |-> "", id |-> 0, name |-> "", category |-> None,
      feed |-> "not_called", events |-> << >>, found |-> FALSE,
      status |-> 0, detail |-> "" ]

BeginLookup(endpoint) == [BlankLookup EXCEPT !.n = lcall.n + 1, !.endpoint = endpoint]

\* raise HTTPException(status_code, detail) reaching the client
HTTPException(rec, status_code, detail) ==
    [rec EXCEPT !.status = status_code, !.detail = detail]

Returned(rec) == [rec EXCEPT !.status = 200]

\* str() of an HTTPException
ExceptionText(status_code, detail) == ToString(status_code) \o ": " \o detail

\* search.py lines 247-273, get_feature_detail: try/finally, no except
get_feature_detail(rec) ==
    IF rec.id \notin FeatureIds
    THEN HTTPException(rec, 404, "Feature not found")
    ELSE Returned([rec EXCEPT !.found = TRUE])

\* search.py lines 381-402, get_event_detail, from the answer of
\* get_event_by_id on: `except HTTPException: raise` lets the 404 through
get_event_detail(rec, event) ==
    IF event = None
    THEN HTTPException(rec, 404, "Event not found")
    ELSE Returned([rec EXCEPT !.found = TRUE, !.events = event])

\* the row that ilike('%feature_name%').first() gives
InsightsRows(feature_name) ==
    SelectSeq(Catalog, LAMBDA row : Contains(LowerName[row.id], Lower(feature_name)))

\* search_deepseek.py lines 347-382, get_feature_insights, up to the call of
\* generate_feature_insights: the HTTPException(404) is raised inside the
\* try, and `except Exception` turns it into a 500
get_feature_insights(rec) ==
    IF InsightsRows(rec.name) = << >>
    THEN HTTPException(rec, 500,
                       "Insights error: " \o ExceptionText(404, "Feature not found"))
    ELSE [rec EXCEPT !.found = TRUE]

\* eonet.py lines 258-286, search_events_by_category: whether the feed is
\* asked, and the list returned when it is not
search_events_by_category(category_name) ==
    IF FeedIsCalled(category_name)
    THEN [called |-> TRUE, events |-> << >>]
    ELSE [called |-> FALSE, events |-> << >>]

LookupStarts == lpc \in {"idle", "done"} /\ lcall.n < MaxLookups

\* GET /feature/{feature_id}
FeatureDetail ==
    /\ LookupStarts
    /\ \E feature_id \in LookupFeatureIds :
          lcall' = get_feature_detail([BeginLookup("feature") EXCEPT !.id = feature_id])
    /\ lpc' = "done"
    /\ UNCHANGED << cacheVars, searchVars, parserVars, textVars, modelVars >>

\* GET /events/{event_id}: the handler awaits get_event_by_id
EventDetailBegins ==
    /\ LookupStarts
    /\ \E event_id \in LookupEventIds :
          lcall' = [BeginLookup("event") EXCEPT !.id = event_id, !.feed = "awaiting"]
    /\ lpc' = "await_event"
    /\ UNCHANGED << cacheVars, searchVars, parserVars, textVars, modelVars >>

\* eonet.py lines 233-255: get_event_by_id returns the event, or None when
\* the request raised (connection failure, timeout, a 404 of the feed)
EventDetailEnds ==
    /\ lpc = "await_event"
    /\ \E answer \in {"event", "raised"} :
          /\ answer = "event" => lcall.id \in FeedEvents
          /\ lcall' = get_event_detail(
                          [lcall EXCEPT !.feed = IF answer = "event"
                                                 THEN "returned" ELSE "raised"],
                          IF answer = "event" THEN << lcall.id >> ELSE None)
    /\ lpc' = "done"
    /\ UNCHANGED << cacheVars, searchVars, parserVars, textVars, modelVars >>

\* GET /discover/insights/{feature_name}: with an API key the handler
\* suspends in generate_feature_insights
InsightsBegins ==
    /\ LookupStarts
    /\ \E feature_name \in LookupNames :
          LET rec == get_feature_insights([BeginLookup("insights") EXCEPT
                                              !.name = feature_name])
          IN  IF rec.status = 0 /\ DEEPSEEK_API_KEY
              THEN lcall' = rec /\ lpc' = "await_insights"
              ELSE lcall' = (IF rec.status = 0 THEN Returned(rec) ELSE rec)
                   /\ lpc' = "done"
    /\ UNCHANGED << cacheVars, searchVars, parserVars, textVars, modelVars >>

\* deepseek_service.py lines 339-394: the remote call ends; a failure is
\* caught there and a fixed sentence returned
InsightsEnds ==
    /\ lpc = "await_insights"
    /\ lcall' = Returned(lcall)
    /\ lpc' = "done"
    /\ UNCHANGED << cacheVars, searchVars, parserVars, textVars, modelVars >>

\* search.py lines 335-378, GET /events: with a category the handler calls
\* search_events_by_category, without one it asks the feed for every event
EventsBegins ==
    /\ LookupStarts
    /\ \E category \in LookupCategories :
          LET rec  == [BeginLookup("events") EXCEPT !.category = category]
              call == IF Truthy(category)
                      THEN search_events_by_category(category[1])
                      ELSE [called |-> TRUE, events |-> << >>]
          IN  IF call.called
              THEN lcall' = [rec EXCEPT !.feed = "awaiting"] /\ lpc' = "await_events"
              ELSE lcall' = Returned([rec EXCEPT !.events = call.events])
                   /\ lpc' = "done"
    /\ UNCHANGED << cacheVars, searchVars, parserVars, textVars, modelVars >>

EventsFeedReturns ==
    /\ lpc = "await_events"
    /\ \E events \in FeedAnswers :
          lcall' = Returned([lcall EXCEPT !.feed = "returned", !.events = events])
    /\ lpc' = "done"
    /\ UNCHANGED << cacheVars, searchVars, parserVars, textVars, modelVars >>

\* lines 377-378: an exception of the feed becomes a 500
EventsFeedRaises ==
    /\ lpc = "await_events"
    /\ lcall' = HTTPException([lcall EXCEPT !.feed = "raised"], 500,
                              "Error fetching EONET events: feed failure")
    /\ lpc' = "done"
    /\ UNCHANGED << cacheVars, searchVars, parserVars, textVars, modelVars >>

InitLookup ==
    /\ clients = Clients({}, {None}, {DefaultLimit})
    /\ DEEPSEEK_API_KEY \in BOOLEAN
    /\ CacheIdle
    /\ SearchIdle /\ ParserIdle /\ TextIdle /\ ModelIdle
    /\ lpc = "idle"
    /\ lcall = BlankLookup

NextLookup ==
    \/ FeatureDetail
    \/ EventDetailBegins
    \/ EventDetailEnds
    \/ InsightsBegins
    \/ InsightsEnds
    \/ EventsBegins
    \/ EventsFeedReturns
    \/ EventsFeedRaises

SpecLookup == InitLookup /\ [][NextLookup]_vars

-----------------------------------------------------------------------------
(* The unified search as a state machine.  The handler suspends at one
   place only, the request to the event feed: parse_natural_query and
   generate_embedding are coroutines that never wait. *)

MaxQueries == 1

\* s repeated n times
RECURSIVE Times(_, _)
Times(s, n) ==
    IF n = 0 THEN ""
    ELSE IF n % 2 = 1 THEN s \o Times(s, n - 1)
    ELSE LET half == Times(s, n \div 2) IN half \o half

\* a query one character over MAX_QUERY_LENGTH
LongQuery == Times("a", MAX_QUERY_LENGTH + 1)

UnifiedClients ==
    Clients({ "recent wildfires", "large craters on the moon", "Mars",
              "", " \t", "a", "a!!", "drop  table x", LongQuery },
            {None, Some("Mars")}, {-1, 1, 10})

InitSearch ==
    /\ clients = UnifiedClients
    /\ DEEPSEEK_API_KEY = FALSE
    /\ CacheIdle
    /\ ParserIdle
    /\ TextIdle /\ ModelIdle
    /\ lpc = "idle"
    /\ lcall = BlankLookup
    /\ spc = "idle"
    /\ sreq = BlankQuery
    /\ served = 0
    /\ _model \in BOOLEAN

\* lines 113-166: the handler from its start to the request to the feed, or
\* to its end when the feed is not asked
QueryBegins ==
    /\ spc \in {"idle", "done"}
    /\ served < MaxQueries
    /\ served' = served + 1
    /\ \E query \in clients.queries, target_body \in clients.bodies,
          limit \in clients.limits, include_events \in BOOLEAN,
          outcome \in ModelOutcomes :
          LET parsed_query == parse_natural_query(query, target_body)
              embedded     == generate_embedding(query, TRUE, _model, outcome)
              rec == [BlankQuery EXCEPT
                         !.query = query, !.target_body = target_body,
                         !.limit = limit, !.include_events = include_events,
                         !.parsed_query = Some(parsed_query),
                         !.embedding = Some(embedded.result),
                         !.outcome = Some(outcome)]
          IN  /\ _model' = embedded.model
              /\ IF embedded.result.kind = "raised"
                 THEN /\ sreq' = Fail(rec, embedded.result.message)
                      /\ spc' = "done"
                 ELSE IF WantsEvents(rec) /\ FeedIsCalled(parsed_query.event_category[1])
                 THEN /\ sreq' = [rec EXCEPT !.feed = "awaiting"]
                      /\ spc' = "await_feed"
                 ELSE /\ sreq' = Complete(rec, << >>)
                      /\ spc' = "done"
    /\ UNCHANGED << cacheVars, parserVars, textVars, modelVars, lookupVars >>

\* lines 142-239: the feed answers
FeedReturns ==
    /\ spc = "await_feed"
    /\ \E events \in FeedAnswers :
          sreq' = Complete([sreq EXCEPT !.feed = "returned"], events)
    /\ spc' = "done"
    /\ UNCHANGED << served, _model, cacheVars, parserVars, textVars, modelVars, lookupVars >>

\* lines 164-239: the request to the feed raises
FeedRaises ==
    /\ spc = "await_feed"
    /\ sreq' = AfterFeedRaises([sreq EXCEPT !.feed = "raised"])
    /\ spc' = "done"
    /\ UNCHANGED << served, _model, cacheVars, parserVars, textVars, modelVars, lookupVars >>

\* POST /query and GET /events are routes of one router: a run has requests
\* to both
NextSearch ==
    \/ QueryBegins
    \/ FeedReturns
    \/ FeedRaises
    \/ EventsBegins
    \/ EventsFeedReturns
    \/ EventsFeedRaises

SpecSearch == InitSearch /\ [][NextSearch]_vars

-----------------------------------------------------------------------------
(* Properties of the unified search *)

Answered == spc = "done" /\ sreq.status = 200

Results == sreq.response[1].results

\* C6: when the request to the event feed raises during a search whose
\* parsed intent is an event query, the search answers 200 with the results
\* of the catalog half alone, event_count 0 and no event entry.
C6_FeedFailureIsNotSurfaced ==
    (spc = "done" /\ sreq.feed = "raised") =>
        /\ sreq.parsed_query[1].search_type = "event"
        /\ sreq.status = 200
        /\ sreq.response[1].event_count = 0
        /\ \A i \in 1..Len(Results) : ~Results[i].is_dynamic_event
        /\ Results = SlicePrefix(
                        SortResults(UnifiedFeatureResults(
                            sreq.parsed_query[1], sreq.target_body,
                            sreq.embedding[1], sreq.limit)),
                        sreq.limit)

\* C6 witness: the feed raised and the search answered with catalog features
C6_Witness ==
    /\ spc = "done"
    /\ sreq.feed = "raised"
    /\ sreq.status = 200
    /\ Len(Results) >= 2

\* C7: the results of a response are in non-increasing order of score and,
\* among entries of equal score, no feature precedes an event.
C7_SortedEventsFirstOnTies ==
    Answered =>
        \A i, j \in 1..Len(Results) :
            i < j =>
                /\ Results[i].similarity_score >= Results[j].similarity_score
                /\ Results[i].similarity_score = Results[j].similarity_score =>
                       ~(~Results[i].is_dynamic_event /\ Results[j].is_dynamic_event)

\* C7 witness: an event scored 0.95 comes before a feature whose score
\* rounds to 0.95 and before a feature scored 0.80
C7_Witness ==
    /\ Answered
    /\ \E i, j, k \in 1..Len(Results) :
          /\ i < j /\ j < k
          /\ Results[i].is_dynamic_event /\ Results[i].similarity_score = 95000
          /\ ~Results[j].is_dynamic_event /\ Results[j].similarity_score = 95000
          /\ ~Results[k].is_dynamic_event /\ Results[k].similarity_score = 80000

\* C9 as stated: a search whose query fails validation ends with a
\* validation error of the 4xx class that carries the reason
C9_InvalidQueryIsClientError ==
    (spc = "done" /\ ~validate_query(sanitize_input(sreq.query)).is_valid) =>
        /\ sreq.status \in 400..499
        /\ Contains(sreq.detail, validate_query(sanitize_input(sreq.query)).error_msg[1])

\* the call of the current request reached the model, which failed to load
\* (the model stays unloaded) or to encode
ModelFailed ==
    /\ validate_query(sanitize_input(sreq.query)).is_valid
    /\ IF sreq.outcome[1].load # "ok" THEN ~_model
       ELSE sreq.outcome[1].encode # "ok"

\* C10 as stated: generate_embedding returns a vector of 384 elements for
\* every text and never raises; the vector is all zero when the text is
\* empty after sanitization and when the model fails to load or encode
C10_EmbeddingIsTotal ==
    sreq.embedding # None =>
        /\ sreq.embedding[1].kind = "vector"
        /\ sreq.embedding[1].dim = EmbeddingDim
        /\ sanitize_input(sreq.query) = "" => sreq.embedding[1].zero
        /\ ModelFailed => sreq.embedding[1].zero

-----------------------------------------------------------------------------
(* backend/ai_service.py and backend/deepseek_service.py as functions of a
   text: one text per run, and each step applies one of sanitize_input,
   validate_query, generate_embedding, parse_natural_query and
   parse_query_with_deepseek to it.  The two parsers are followed by the
   catalog query their endpoint makes with the parsed intent. *)

\* how often sanitize_input is applied to its own output in one run
MaxSanitize == 2

Texts ==
    { "", "a", "ab", "  ", " a  b ", "\ta\n", SOH \o " a", "a" \o SOH \o "b",
      Times("a", MAX_QUERY_LENGTH), LongQuery,
      "craters;", "a<b", "a--b", "/* x */", "UNION  SELECT", "reunion selected",
      "Drop Table x", "<SCRIPT", "comment /*\n*/ here ok", "a!!", "aaaaaaa!!!", "dust storm",
      "Show me Dust  Storms", "storms", "sea ice", "dust storm; x", "large or small craters",
      "tiny crater", "BIG; x", "show me craters", "lunar craters",
      "Mars mons", "wildfires on earth" }

TextClients == Clients(Texts, {None, Some(""), Some("Moon")}, {DefaultLimit})

\* what is known of the text of a run: the outputs of sanitize_input applied
\* again and again, and the outcome of each of the other functions
TextCall(text) ==
    [ text |-> text, sanitized |-> << >>, validation |-> None,
      embedding |-> None, natural |-> None, remote |-> None ]

InitText ==
    /\ clients = TextClients
    /\ DEEPSEEK_API_KEY \in BOOLEAN
    /\ CacheIdle
    /\ ParserIdle
    /\ ModelIdle /\ LookupIdle
    /\ spc = "off" /\ sreq = << >> /\ served = 0
    /\ _model \in BOOLEAN
    /\ tpc = "ready"
    /\ \E text \in TextClients.queries : tcall = TextCall(text)

\* sanitize_input, of the text and then of its own output
Sanitizes ==
    /\ tpc \in {"ready", "sanitized"}
    /\ Len(tcall.sanitized) < MaxSanitize
    /\ tpc' = "sanitized"
    /\ tcall' = [tcall EXCEPT !.sanitized =
                    Append(@, sanitize_input(IF @ = << >> THEN tcall.text
                                             ELSE @[Len(@)]))]
    /\ UNCHANGED << cacheVars, searchVars, parserVars, modelVars, lookupVars >>

\* validate_query of the text as it is
Validates ==
    /\ tpc = "ready"
    /\ tpc' = "validated"
    /\ tcall' = [tcall EXCEPT !.validation = Some(validate_query(tcall.text))]
    /\ UNCHANGED << cacheVars, searchVars, parserVars, modelVars, lookupVars >>

\* generate_embedding of the text, with and without validation
Embeds ==
    /\ tpc = "ready"
    /\ tpc' = "embedded"
    /\ \E validate \in BOOLEAN, outcome \in ModelOutcomes :
          LET embedded == generate_embedding(tcall.text, validate, _model, outcome)
          IN  /\ tcall' = [tcall EXCEPT !.embedding =
                              Some([ validate |-> validate, outcome |-> outcome,
                                     loaded |-> _model,
                                     result |-> embedded.result ])]
              /\ _model' = embedded.model
    /\ UNCHANGED << spc, sreq, served, cacheVars, parserVars, modelVars, lookupVars >>

\* parse_natural_query of the text, and the rows search.py selects with it
ParsesNaturally ==
    /\ tpc = "ready"
    /\ tpc' = "parsed"
    /\ \E target_body \in clients.bodies :
          LET parsed_query == parse_natural_query(tcall.text, target_body)
          IN  tcall' = [tcall EXCEPT !.natural =
                           Some([ target_body |-> target_body,
                                  result |-> parsed_query,
                                  rows |-> UnifiedRows(parsed_query, target_body) ])]
    /\ UNCHANGED << cacheVars, searchVars, parserVars, modelVars, lookupVars >>

\* parse_query_with_deepseek of the text, and the rows search_deepseek.py
\* selects with it when the parser returned an object
ParsesRemotely ==
    /\ tpc = "ready"
    /\ tpc' = "parsed"
    /\ \E target_body \in clients.bodies, remote \in ParseOutcomes :
          LET parsed_query == parse_query_with_deepseek(tcall.text, target_body,
                                                        DEEPSEEK_API_KEY, remote)
              scored == IF parsed_query.kind = "object"
                        THEN KeywordScored(parsed_query, target_body) ELSE << >>
          IN  tcall' = [tcall EXCEPT !.remote =
                           Some([ target_body |-> target_body,
                                  outcome |-> IF DEEPSEEK_API_KEY THEN Some(remote)
                                              ELSE None,
                                  result |-> parsed_query,
                                  rows |-> [i \in 1..Len(scored) |-> scored[i].feature] ])]
    /\ UNCHANGED << cacheVars, searchVars, parserVars, modelVars, lookupVars >>

NextText == Sanitizes \/ Validates \/ Embeds \/ ParsesNaturally \/ ParsesRemotely

SpecText == InitText /\ [][NextText]_vars

-----------------------------------------------------------------------------
(* Properties of the text functions *)

\* the text of the run is one validate_query rejects after sanitization
Rejected == ~validate_query(sanitize_input(tcall.text)).is_valid

\* a string starts with a prefix
StartsWith(s, prefix) == Len(s) >= Len(prefix) /\ SubSeq(s, 1, Len(prefix)) = prefix

\* C11 as stated: for every text that validate_query rejects after
\* sanitization, generate_embedding raises ValueError("Invalid query: ...")
\* when it validates (the default) and returns a vector of 384 elements
\* when called with validate=False
C11_ValidatesByDefault ==
    (tcall.embedding # None /\ Rejected) =>
        LET call == tcall.embedding[1]
        IN  IF call.validate
            THEN /\ call.result.kind = "raised"
                 /\ call.result.exception = "ValueError"
                 /\ StartsWith(call.result.message, "Invalid query: ")
            ELSE /\ call.result.kind = "vector"
                 /\ call.result.dim = EmbeddingDim

\* C12 as stated: sanitize_input is idempotent: for every string, with NUL
\* bytes, control characters or whitespace anywhere in it, sanitizing the
\* output again returns the output unchanged
C12_SanitizeIdempotent ==
    Len(tcall.sanitized) = MaxSanitize =>
        tcall.sanitized[2] = tcall.sanitized[1]

\* the text of the run has a length validate_query allows and matches none
\* of the unsafe patterns
InRangeAndSafe ==
    /\ Len(tcall.text) \in MIN_QUERY_LENGTH..MAX_QUERY_LENGTH
    /\ ~DANGEROUS_PATTERNS(Lower(tcall.text))

\* C13 as stated: validate_query returns (True, None) for every query whose
\* length is between 2 and 500 inclusive and that matches none of the
\* unsafe patterns
C13_AcceptsAsStated ==
    (tcall.validation # None /\ InRangeAndSafe) => tcall.validation[1] = Valid

\* C13, amended: validate_query returns (True, None) for every query of
\* length 2 to 500 inclusive that is not whitespace only, matches none of
\* the unsafe patterns and has at most 30% special characters
C13_AcceptsInRange ==
    ( /\ tcall.validation # None
      /\ InRangeAndSafe
      /\ Strip(tcall.text) # ""
      /\ 10 * SpecialCharCount(tcall.text) <= 3 * Len(tcall.text) )
    => tcall.validation[1] = Valid

\* a query of exactly 500 characters has been validated and accepted
C13_Witness ==
    /\ tcall.validation = Some(Valid)
    /\ Len(tcall.text) = MAX_QUERY_LENGTH

\* s has an opening comment mark and a closing one somewhere after it
HasCommentMarks(s) ==
    \E i \in 1..(Len(s) - 3) :
        /\ SubSeq(s, i, i + 1) = "/*"
        /\ \E j \in (i + 2)..(Len(s) - 1) : SubSeq(s, j, j + 1) = "*/"

\* the lower-cased text of the run contains one of the unsafe texts the
\* claim lists
ContainsUnsafeText ==
    LET t == Lower(tcall.text)
    IN  \/ \E i \in 1..Len(t) : Char(t, i) \in ShellChars
        \/ Contains(t, "--")
        \/ HasCommentMarks(t)
        \/ Contains(t, "union select")
        \/ Contains(t, "drop table")
        \/ Contains(t, "<script")

-----------------------------------------------------------------------------
(* Properties of parse_natural_query *)

\* the dict the call of the run returned, and the text its scans ran over
Parsed == tcall.natural[1].result
Scanned == Lower(sanitize_input(tcall.text))

\* the call of the run has returned, and with a parse rather than an error
HasParsed == tcall.natural # None
ParsedValid == HasParsed /\ Parsed.error = None

\* entry i of EVENT_KEYWORDS is the first one contained in s
FirstContained(i, s) ==
    /\ Contains(s, EVENT_KEYWORDS[i][1])
    /\ \A j \in 1..(i - 1) : ~Contains(s, EVENT_KEYWORDS[j][1])

\* every phrase is registered before each shorter keyword it contains that
\* maps to another category
SpecificFirst ==
    \A i, j \in 1..Len(EVENT_KEYWORDS) :
        ( /\ Len(EVENT_KEYWORDS[j][1]) > Len(EVENT_KEYWORDS[i][1])
          /\ Contains(EVENT_KEYWORDS[j][1], EVENT_KEYWORDS[i][1])
          /\ EVENT_KEYWORDS[j][2] # EVENT_KEYWORDS[i][2] ) => j < i

\* C15 as stated: the first registered keyword contained in the lower-cased
\* query decides event_category, more specific phrases are registered first,
\* and so a query containing 'dust storm' yields 'Dust and Haze'
C15_FirstPhraseDecidesAsStated ==
    HasParsed =>
        /\ SpecificFirst
        /\ \A i \in 1..Len(EVENT_KEYWORDS) :
              FirstContained(i, Scanned) =>
                  Parsed.event_category = Some(EVENT_KEYWORDS[i][2])
        /\ Contains(Scanned, "dust storm") =>
              Parsed.event_category = Some("Dust and Haze")

\* C15, amended: the same for a query that passes validation; a query that
\* fails it gets an error and no event_category
C15_FirstPhraseDecides ==
    /\ ParsedValid =>
        /\ SpecificFirst
        /\ \A i \in 1..Len(EVENT_KEYWORDS) :
              FirstContained(i, Scanned) =>
                  Parsed.event_category = Some(EVENT_KEYWORDS[i][2])
        /\ (\A i \in 1..Len(EVENT_KEYWORDS) : ~Contains(Scanned, EVENT_KEYWORDS[i][1]))
              => Parsed.event_category = None
        /\ Contains(Scanned, "dust storm") =>
              Parsed.event_category = Some("Dust and Haze")
    /\ (HasParsed /\ Parsed.error # None) => Parsed.event_category = None

\* a valid query with 'dust storm', and so 'storm', in it has been parsed
C15_Witness ==
    /\ ParsedValid
    /\ Contains(Scanned, "dust storm") /\ Contains(Scanned, "storm")
    /\ Parsed.event_category = Some("Dust and Haze")

\* the remote parser call of the run has returned a JSON object
HasObject == tcall.remote # None /\ tcall.remote[1].result.kind = "object"

\* the body parse_query_with_deepseek detected: the one the remote service
\* named, or the fallback's when the service gave no usable answer
RemoteDetected ==
    LET call == tcall.remote[1]
    IN  IF call.outcome # None /\ call.outcome[1].kind = "content"
           /\ call.outcome[1].value.kind = "object"
        THEN call.outcome[1].value.target_body
        ELSE FirstMatch(body_keywords, Lower(tcall.text))

\* the override fills a gap only: a detected body stands, the supplied one
\* is used when none was detected, and without either there is none
FillsGap(detected, supplied, body) ==
    /\ Truthy(detected) => body = detected
    /\ (~Truthy(detected) /\ Truthy(supplied)) => body = supplied
    /\ (~Truthy(detected) /\ ~Truthy(supplied)) => ~Truthy(body)

\* every row is of the given body, when there is one
RowsOfBody(rows, body) ==
    Truthy(body) => \A i \in 1..Len(rows) : Lower(rows[i].target_body) = Lower(body[1])

LargeWords == << "large", "big", "huge", "major" >>
SmallWords == << "small", "tiny", "minor" >>

\* size_filter is what the size words of the scanned text ask for, the
\* large ones first
SizeByPrecedence ==
    /\ ContainsAny(Scanned, LargeWords) => Parsed.size_filter = Some("large")
    /\ (ContainsAny(Scanned, SmallWords) /\ ~ContainsAny(Scanned, LargeWords))
          => Parsed.size_filter = Some("small")
    /\ (~ContainsAny(Scanned, SmallWords) /\ ~ContainsAny(Scanned, LargeWords))
          => Parsed.size_filter = None

\* C17 as stated: in parse_natural_query a query containing large, big,
\* huge or major gets size_filter 'large' even if it also contains small,
\* tiny or minor; 'small' is assigned only with a small word and no large
\* word; otherwise size_filter is unset
C17_LargeFirstAsStated == HasParsed => SizeByPrecedence

\* C17, amended: the same for a query that passes validation; a query that
\* fails it gets an error and no size_filter
C17_LargeFirst ==
    /\ ParsedValid => SizeByPrecedence
    /\ (HasParsed /\ Parsed.error # None) => Parsed.size_filter = None

\* a valid query with a large word and a small word got 'large'
C17_Witness ==
    /\ ParsedValid
    /\ ContainsAny(Scanned, LargeWords) /\ ContainsAny(Scanned, SmallWords)
    /\ Parsed.size_filter = Some("large")

\* C18: for a valid query parse_natural_query returns search_type 'event'
\* exactly when it returns an event_category and exactly when it returns a
\* warning; a 'feature' result has neither, and an 'event' result has no
\* catalog category
C18_EventShape ==
    ParsedValid =>
        /\ Parsed.search_type \in {"event", "feature"}
        /\ (Parsed.search_type = "event") <=> (Parsed.event_category # None)
        /\ (Parsed.search_type = "event") <=> Parsed.warning
        /\ Parsed.search_type = "feature" =>
              (Parsed.event_category = None /\ ~Parsed.warning)
        /\ Parsed.search_type = "event" => Parsed.category = None

\* an event query that has a word of the catalog categories in it ('sea')
\* has been parsed
C18_Witness ==
    /\ ParsedValid
    /\ Parsed.search_type = "event"
    /\ FirstCategory(Scanned) # None

-----------------------------------------------------------------------------
(* backend/ai_service.py: get_model under concurrent first calls.  Each
   caller runs the statements of the function in order, and the callers
   interleave between any two of them: the function takes no lock.  `handle`
   identifies the object the global _model refers to (0 for None), `loads`
   counts the models constructed so far. *)

MaxCallers == 3

Callers == 1..MaxCallers

\* where a caller is in get_model, the model it has constructed and the one
\* it returned
Caller(at, built, got) == [at |-> at, built |-> built, got |-> got]

InitModel ==
    /\ clients = Clients({}, {None}, {DefaultLimit})
    /\ DEEPSEEK_API_KEY = FALSE
    /\ CacheIdle
    /\ SearchIdle
    /\ ParserIdle
    /\ TextIdle
    /\ LookupIdle
    /\ gpc = [c \in Callers |-> Caller("idle", 0, 0)]
    /\ loads = 0
    /\ handle = 0

\* line 40: `if _model is None:`
Tests(c) ==
    /\ gpc[c].at = "idle"
    /\ gpc' = [gpc EXCEPT ![c].at = IF handle = 0 THEN "load" ELSE "return"]
    /\ UNCHANGED << loads, handle, cacheVars, searchVars, parserVars, textVars, lookupVars >>

\* line 42, right-hand side: SentenceTransformer(MODEL_NAME) builds a model
Loads(c) ==
    /\ gpc[c].at = "load"
    /\ loads' = loads + 1
    /\ gpc' = [gpc EXCEPT ![c].at = "store", ![c].built = loads + 1]
    /\ UNCHANGED << handle, cacheVars, searchVars, parserVars, textVars, lookupVars >>

\* line 42, right-hand side: the constructor raises, and so does get_model
LoadRaises(c) ==
    /\ gpc[c].at = "load"
    /\ gpc' = [gpc EXCEPT ![c].at = "raised"]
    /\ UNCHANGED << loads, handle, cacheVars, searchVars, parserVars, textVars, lookupVars >>

\* line 42, the assignment to the global
Stores(c) ==
    /\ gpc[c].at = "store"
    /\ handle' = gpc[c].built
    /\ _model' = TRUE
    /\ gpc' = [gpc EXCEPT ![c].at = "return"]
    /\ UNCHANGED << loads, spc, sreq, served, cacheVars, parserVars, textVars, lookupVars >>

\* line 44: `return _model`
Returns(c) ==
    /\ gpc[c].at = "return"
    /\ gpc' = [gpc EXCEPT ![c].at = "done", ![c].got = handle]
    /\ UNCHANGED << loads, handle, cacheVars, searchVars, parserVars, textVars, lookupVars >>

NextModel ==
    \E c \in Callers :
        Tests(c) \/ Loads(c) \/ LoadRaises(c) \/ Stores(c) \/ Returns(c)

SpecModel == InitModel /\ [][NextModel]_vars

\* C20 as stated: under any interleaving of concurrent first calls to
\* get_model the embedding model is loaded at most once in the process, and
\* once loaded the handle is never replaced
C20_LoadedAtMostOnce ==
    /\ [](loads <= 1)
    /\ [][handle # 0 => handle' = handle]_vars

-----------------------------------------------------------------------------
(* The keyword search on an empty cache, with clients whose queries differ
   in case and whitespace or fail validation, and whose body filter is
   absent or the string "all" *)

KeyClients ==
    Clients({ "craters", " craters  ", "a" },
            {None, Some("all")}, {DefaultLimit})

InitKeys ==
    /\ clients = KeyClients
    /\ _search_cache = << >>
    /\ lastStore = {}
    /\ lastPut = NoPut
    /\ now = 0
    /\ ticks = 0
    /\ DEEPSEEK_API_KEY \in BOOLEAN
    /\ pc = [r \in Reqs |-> "idle"]
    /\ req = [r \in Reqs |-> BlankReq]
    /\ issued = 0
    /\ OtherIdle

SpecKeys == InitKeys /\ [][Next]_vars

\* the query of request r fails validation
FailsValidation(r) == ~validate_query(sanitize_input(req[r].query)).is_valid

\* C22 as stated, for the keyword search: a request whose query fails
\* validation never waits for the remote parser or the remote summary,
\* never queries the catalog and never stores in the cache.
C22_GateBeforeEveryStage ==
    \A r \in Reqs :
        (Looked(r) /\ FailsValidation(r)) =>
            /\ pc[r] \notin {"await_parse", "await_summary"}
            /\ req[r].calls = {}
            /\ ~req[r].stored

\* The same gate in the embedding-ranked search: a request whose query fails
\* validation ends with status 500 before the feed and the catalog are asked.
UnifiedGateHolds ==
    (spc # "idle" /\ spc # "off"
        /\ ~validate_query(sanitize_input(sreq.query)).is_valid) =>
        /\ spc = "done"
        /\ sreq.status = 500
        /\ sreq.feed = "not_called"
        /\ sreq.response = None

\* the normalized text of a request's query: sanitized, then lower-cased
SanitizedLower(r) == Lower(sanitize_input(req[r].query))

\* C23 as stated: two requests whose sanitized lower-cased queries are equal
\* and whose body filters are equal look the cache up under the same key.
C23_KeyFromSanitizedQuery ==
    \A r1, r2 \in Reqs :
        (/\ Looked(r1) /\ Looked(r2)
         /\ SanitizedLower(r1) = SanitizedLower(r2)
         /\ req[r1].target_body = req[r2].target_body) =>
            req[r1].cache_key = req[r2].cache_key

-----------------------------------------------------------------------------
(* The event feed in the unified search and in GET /events *)

\* the search has asked the feed
FeedAsked == spc \in {"await_feed", "done"} /\ sreq.feed # "not_called"

\* a GET /events request names a category that CATEGORY_MAPPING lacks
UnmappedCategory ==
    /\ lpc # "idle" /\ lcall.endpoint = "events"
    /\ Truthy(lcall.category) /\ lcall.category[1] \notin CATEGORY_MAPPING

\* C24: a search asks the event feed only if the request enables events and
\* the parsed intent has search_type "event" and an event category; it asks
\* once, when it begins, and the request ends the search's dealings with the
\* feed whether it returns or raises; search_events_by_category called with
\* a category that has no entry in CATEGORY_MAPPING returns an empty list
\* without a request to the feed and without raising.
C24_FeedOnlyForEventIntent ==
    /\ [](FeedAsked =>
             /\ sreq.include_events
             /\ sreq.parsed_query[1].search_type = "event"
             /\ Truthy(sreq.parsed_query[1].event_category))
    /\ [][(spc' = "await_feed" /\ spc # "await_feed") =>
             (spc \in {"idle", "done"} /\ served' = served + 1)]_vars
    /\ [][(spc = "await_feed" /\ spc' # "await_feed") =>
             (spc' = "done" /\ sreq'.feed \in {"returned", "raised"})]_vars
    /\ [](UnmappedCategory =>
             /\ lpc = "done"
             /\ lcall.feed = "not_called"
             /\ lcall.events = << >>
             /\ lcall.status = 200)

\* a search got events from the feed, and a GET /events request for the
\* category "Landslides" has ended
C24_Witness ==
    /\ spc = "done" /\ sreq.feed = "returned" /\ sreq.events # << >>
    /\ UnmappedCategory /\ lpc = "done"

-----------------------------------------------------------------------------
(* The lookup endpoints *)

\* the request that has ended asked for a feature or an event that does not
\* exist
LooksUpMissing ==
    /\ lpc = "done"
    /\ \/ lcall.endpoint = "feature" /\ lcall.id \notin FeatureIds
       \/ lcall.endpoint = "event" /\ lcall.id \notin FeedEvents
       \/ lcall.endpoint = "insights" /\ InsightsRows(lcall.name) = << >>

\* C26 as stated: on the feature detail, event detail and feature insights
\* endpoints, a lookup of a feature or event that does not exist reaches the
\* caller as a 404, never as a 500.
C26_MissingIs404 == LooksUpMissing => lcall.status = 404

\* the two endpoints of search.py do answer 404
DetailEndpointsAnswer404 ==
    (LooksUpMissing /\ lcall.endpoint \in {"feature", "event"}) =>
        lcall.status = 404

-----------------------------------------------------------------------------
(* The ranking of the unified search against its specification *)

\* every scored feature of the request, formatted, in descending score order
AllFeatureResults ==
    LET scored == SortDesc(ScoreBySimilarity(
                               UnifiedRows(sreq.parsed_query[1], sreq.target_body),
                               sreq.embedding[1]))
    IN  [i \in 1..Len(scored) |-> FeatureResult(scored[i].item, scored[i].score)]

\* the events of the request, formatted, in the order of the feed
AllEventResults == [i \in 1..Len(sreq.events) |-> EventResult(sreq.events[i])]

\* C27: cutting the scored features to the limit before they are merged
\* with the events changes nothing: for a limit of 0 or more, the results
\* of a search are the first `limit` entries of the stable descending sort
\* of all the events followed by all the scored features.
C27_EarlyCutRefinesMerge ==
    (Answered /\ sreq.limit >= 0) =>
        Results = SlicePrefix(SortResults(AllEventResults \o AllFeatureResults),
                              sreq.limit)

\* a search with events and more scored features than its limit, one of
\* them scored above the events
C27_Witness ==
    /\ Answered /\ sreq.limit >= 0
    /\ sreq.events # << >>
    /\ Len(AllFeatureResults) > sreq.limit
    /\ Len(Results) = sreq.limit
    /\ ~Results[1].is_dynamic_event

-----------------------------------------------------------------------------
(* The counts of a response of the unified search *)

EventEntries   == { i \in 1..Len(Results) : Results[i].is_dynamic_event }
FeatureEntries == { i \in 1..Len(Results) : ~Results[i].is_dynamic_event }

-----------------------------------------------------------------------------
(* The cache key as a function of the request *)

\* C29 as stated: two requests have the same cache key only if their
\* lower-cased queries are equal and their body filters are equal, an absent
\* body filter being different from every body string, "all" included; so a
\* hit is never served a response stored by a request with another body
\* filter.
C29_KeysDoNotCollide ==
    \A r1, r2 \in Reqs :
        (Looked(r1) /\ Looked(r2) /\ req[r1].cache_key = req[r2].cache_key) =>
            /\ Lower(req[r1].query) = Lower(req[r2].query)
            /\ req[r1].target_body = req[r2].target_body
====
